---------------------------- MODULE Spec2Model ----------------------------
(***************************************************************************)
(* The redirect-swapping proxy of oauth2-redirect-controller               *)
(* (src/proxy/oauth2.go): the registry of OAUTH2Proxy bindings, ServeHTTP  *)
(* with its two legs (changeRedirectURI, recoverIncomingState), and the    *)
(* text conversions the legs rely on (net/url, url.Values, encoding/json). *)
(*                                                                         *)
(* Text is a sequence of tokens.  A token is a run of unreserved           *)
(* characters (a word such as "https" or "origState"), one reserved        *)
(* character (":", "/", "?", ...), or one percent-escape ("%3A").  The     *)
(* conversions work on the tokens the way the Go functions work on bytes.  *)
(***************************************************************************)
EXTENDS Integers, Sequences, FiniteSets, TLC

(***************************************************************************)
(* Characters and percent-encoding (net/url escape / unescape).            *)
(***************************************************************************)
\* reserved character |-> its percent-escape
EscTable ==
  << <<":", "%3A">>, <<"/", "%2F">>, <<"?", "%3F">>, <<"&", "%26">>,
     <<"=", "%3D">>, <<"#", "%23">>, <<"{", "%7B">>, <<"}", "%7D">>,
     <<"\"", "%22">>, <<",", "%2C">>, <<"\\", "%5C">>, <<"%", "%25">> >>

Reserved == { EscTable[i][1] : i \in 1..Len(EscTable) }
Escapes  == { EscTable[i][2] : i \in 1..Len(EscTable) }
\* a "%" followed by two characters that are not hexadecimal digits
BadEscape == "%zz"

IsWord(t) == t \notin Reserved /\ t \notin Escapes /\ t # BadEscape

EscapeOf(c) == LET i == CHOOSE i \in 1..Len(EscTable) : EscTable[i][1] = c
               IN  EscTable[i][2]
UnescapeOf(e) == LET i == CHOOSE i \in 1..Len(EscTable) : EscTable[i][2] = e
                 IN  EscTable[i][1]

\* characters url.PathEscape-style encoding leaves alone inside a path
\* (shouldEscape, mode encodePath: "$&+,/:;=@" stay)
PathSafe == {":", "/", "&", "=", ","}

MapSeq(s, F(_)) == [i \in 1..Len(s) |-> F(s[i])]

IndexOf(s, t) ==
  IF \E i \in 1..Len(s) : s[i] = t
  THEN CHOOSE i \in 1..Len(s) : s[i] = t /\ \A j \in 1..(i-1) : s[j] # t
  ELSE 0

Tail2(s, i) == SubSeq(s, i, Len(s))
HasPrefix(s, p) == Len(p) <= Len(s) /\ SubSeq(s, 1, Len(p)) = p

\* url.QueryEscape: every reserved character is escaped
QueryEscape(s) == MapSeq(s, LAMBDA t : IF t \in Reserved THEN EscapeOf(t) ELSE t)

\* unescape succeeds unless the text holds an invalid percent-escape
CanUnescape(s) == \A i \in 1..Len(s) : s[i] # BadEscape /\ s[i] # "%"
Unescape(s) == MapSeq(s, LAMBDA t : IF t \in Escapes THEN UnescapeOf(t) ELSE t)

\* URL.EscapedPath: the path with the characters a path cannot hold escaped
EscapePath(s) ==
  MapSeq(s, LAMBDA t : IF t \in Reserved /\ t \notin PathSafe
                       THEN EscapeOf(t) ELSE t)

(***************************************************************************)
(* net/url: URL, url.Parse and URL.String.                                 *)
(***************************************************************************)
Empty == <<>>

\* the fields of url.URL the proxy reads or writes
MkURL(ok, scheme, opaque, host, path, rawquery, fragment) ==
  [ok |-> ok, Scheme |-> scheme, Opaque |-> opaque, Host |-> host,
   Path |-> path, RawQuery |-> rawquery, Fragment |-> fragment]

ParseError == MkURL(FALSE, Empty, Empty, Empty, Empty, Empty, Empty)

\* digits after the ":" of a host (validOptionalPort)
PortWords == {"8080", "9090", "443"}

\* parseHost: a host is a name, optionally followed by ":" and a port
ValidHost(h) ==
  \/ h = Empty
  \/ Len(h) = 1 /\ IsWord(h[1])
  \/ Len(h) = 3 /\ IsWord(h[1]) /\ h[2] = ":" /\ h[3] \in PortWords

\* the text before the first occurrence of t (all of it if there is none),
\* and the text after it
Before(s, t) == IF IndexOf(s, t) = 0 THEN s ELSE SubSeq(s, 1, IndexOf(s, t) - 1)
After(s, t)  == IF IndexOf(s, t) = 0 THEN Empty ELSE Tail2(s, IndexOf(s, t) + 1)

\* parse, last step: the authority and the path of "//host/path"
ParseAuthority(scheme, afterSl, rawquery, frag) ==
  IF ~ValidHost(Before(afterSl, "/"))
     \/ ~CanUnescape(Tail2(afterSl, Len(Before(afterSl, "/")) + 1))
  THEN ParseError
  ELSE MkURL(TRUE, scheme, Empty, Before(afterSl, "/"),
             Unescape(Tail2(afterSl, Len(Before(afterSl, "/")) + 1)),
             rawquery, Unescape(frag))

\* parse, after the scheme and the query are cut off: an opaque URL, a URL
\* with an authority, or a path alone
ParseRest(scheme, rest, rawquery, frag) ==
  IF scheme # Empty /\ rest # Empty /\ rest[1] # "/"
    THEN MkURL(TRUE, scheme, rest, Empty, Empty, rawquery, Unescape(frag))
  ELSE IF scheme = Empty /\ rest # Empty /\ rest[1] # "/"
          /\ IndexOf(Before(rest, "/"), ":") # 0
    THEN ParseError   \* first path segment in URL cannot contain colon
  ELSE IF HasPrefix(rest, <<"/", "/">>)
          /\ (scheme # Empty \/ ~HasPrefix(rest, <<"/", "/", "/">>))
    THEN ParseAuthority(scheme, Tail2(rest, 3), rawquery, frag)
  ELSE IF ~CanUnescape(rest) THEN ParseError
  ELSE MkURL(TRUE, scheme, Empty, Empty, Unescape(rest), rawquery,
             Unescape(frag))

\* getScheme: letters up to the first ":" are the scheme; a leading ":" is
\* "missing protocol scheme"; any other character first ends the scan
ParseScheme(noFrag, frag) ==
  IF noFrag # Empty /\ noFrag[1] = ":" THEN ParseError
  ELSE IF Len(noFrag) >= 2 /\ IsWord(noFrag[1]) /\ noFrag[2] = ":"
    THEN ParseRest(<<noFrag[1]>>, Before(Tail2(noFrag, 3), "?"),
                   After(Tail2(noFrag, 3), "?"), frag)
  ELSE ParseRest(Empty, Before(noFrag, "?"), After(noFrag, "?"), frag)

\* url.Parse(rawURL) as the proxy calls it (not via a request line): cut
\* the fragment, then the scheme, then the query, then authority and path
Parse(raw) ==
  IF ~CanUnescape(After(raw, "#")) THEN ParseError
  ELSE ParseScheme(Before(raw, "#"), After(raw, "#"))

\* URL.String(), the part between the scheme and the query
StringBody(u, path) ==
  IF u.Opaque # Empty THEN u.Opaque
  ELSE (IF (u.Scheme # Empty \/ u.Host # Empty)
           /\ (u.Host # Empty \/ u.Path # Empty)
        THEN <<"/", "/">> \o u.Host ELSE Empty)
       \o (IF path # Empty /\ path[1] # "/" /\ u.Host # Empty THEN <<"/">>
           ELSE IF u.Scheme = Empty /\ u.Host = Empty
                   /\ IndexOf(Before(path, "/"), ":") # 0
             THEN <<".", "/">>
           ELSE Empty)
       \o path

\* URL.String()
String(u) ==
  (IF u.Scheme # Empty THEN u.Scheme \o <<":">> ELSE Empty)
  \o StringBody(u, EscapePath(u.Path))
  \o (IF u.RawQuery # Empty THEN <<"?">> \o u.RawQuery ELSE Empty)
  \o (IF u.Fragment # Empty THEN <<"#">> \o EscapePath(u.Fragment) ELSE Empty)

(***************************************************************************)
(* url.Values: URL.Query (ParseQuery), Get, Set, Del, Encode.  The map is  *)
(* kept as the list of <<key, value>> pairs in the order they were parsed; *)
(* Encode sorts by key and keeps the order of the values of one key.       *)
(***************************************************************************)
\* the pieces of s between the separators sep
RECURSIVE Split(_, _)
Split(s, sep) ==
  LET at == IndexOf(s, sep)
  IN  IF at = 0 THEN <<s>>
      ELSE <<SubSeq(s, 1, at - 1)>> \o Split(Tail2(s, at + 1), sep)

\* one "key=value" piece: <<>> if it is empty or malformed (ParseQuery
\* records the error and goes on; URL.Query drops the error)
QueryPair(piece) ==
  LET eq  == IndexOf(piece, "=")
      key == IF eq = 0 THEN piece ELSE SubSeq(piece, 1, eq - 1)
      val == IF eq = 0 THEN Empty ELSE Tail2(piece, eq + 1)
  IN  IF piece = Empty \/ ~CanUnescape(key) \/ ~CanUnescape(val)
      THEN <<>>
      ELSE << <<Unescape(key), Unescape(val)>> >>

RECURSIVE Concat(_)
Concat(ss) == IF ss = <<>> THEN <<>> ELSE Head(ss) \o Concat(Tail(ss))

\* URL.Query()
Query(rawquery) == Concat(MapSeq(Split(rawquery, "&"), QueryPair))

\* Values.Get: the first value of the key, "" if there is none
Get(vals, key) ==
  IF \E i \in 1..Len(vals) : vals[i][1] = key
  THEN vals[CHOOSE i \in 1..Len(vals) :
              vals[i][1] = key /\ \A j \in 1..(i-1) : vals[j][1] # key][2]
  ELSE Empty

Has(vals, key) == \E i \in 1..Len(vals) : vals[i][1] = key

\* every value of the key, in order
GetAll(vals, key) ==
  LET F[i \in 0..Len(vals)] ==
        IF i = 0 THEN <<>>
        ELSE IF vals[i][1] = key THEN Append(F[i-1], vals[i][2]) ELSE F[i-1]
  IN  F[Len(vals)]

\* Values.Del
Del(vals, key) ==
  LET F[i \in 0..Len(vals)] ==
        IF i = 0 THEN <<>>
        ELSE IF vals[i][1] = key THEN F[i-1] ELSE Append(F[i-1], vals[i])
  IN  F[Len(vals)]

\* Values.Set: the key gets exactly this one value
Set(vals, key, value) == Append(Del(vals, key), <<key, value>>)

\* byte order of the tokens that occur in keys (Encode sorts the keys)
KeyOrder == <<"client_id", "code", "redirect_uri", "scope", "state">>
KeyRank(key) ==
  IF Len(key) = 1 /\ IndexOf(KeyOrder, key[1]) # 0
  THEN IndexOf(KeyOrder, key[1]) ELSE 0

\* Values.Encode(): "k=v" pieces joined by "&", keys sorted, both escaped
Encode(vals) ==
  LET piece(p) == QueryEscape(p[1]) \o <<"=">> \o QueryEscape(p[2])
      OfRank(r) ==
        LET F[i \in 0..Len(vals)] ==
              IF i = 0 THEN <<>>
              ELSE IF KeyRank(vals[i][1]) = r
                   THEN F[i-1] \o (IF F[i-1] = <<>> THEN <<>> ELSE <<"&">>)
                               \o piece(vals[i])
                   ELSE F[i-1]
        IN  F[Len(vals)]
      G[r \in 0..Len(KeyOrder)] ==
        IF r = 0 THEN OfRank(0)
        ELSE IF OfRank(r) = <<>> THEN G[r-1]
        ELSE G[r-1] \o (IF G[r-1] = <<>> THEN <<>> ELSE <<"&">>) \o OfRank(r)
  IN  G[Len(KeyOrder)]

(***************************************************************************)
(* encoding/json on the state struct (oauth2.go:41-44): two string fields, *)
(* both omitempty.                                                         *)
(***************************************************************************)
MkState(origState, origRedirectURI) ==
  [OrigState |-> origState, OrigRedirectURI |-> origRedirectURI]

Quote == "\""
Backslash == "\\"

\* a faulty variant of JSONString:
\* the value goes between the quotes as it is
JSONStringRaw(s) == <<Quote>> \o s \o <<Quote>>

\* a Go string as a JSON string: quotes and backslashes get a backslash,
\* "&" is written \u0026 (json.Marshal escapes HTML characters)
JSONString(s) ==
  LET enc(t) == IF t = Quote \/ t = Backslash THEN <<Backslash, t>>
                ELSE IF t = "&" THEN <<Backslash, "u0026">>
                ELSE <<t>>
  IN  <<Quote>> \o Concat(MapSeq(s, enc)) \o <<Quote>>

\* json.Marshal(st)
Marshal(st) ==
  LET a == IF st.OrigState = Empty THEN Empty
           ELSE <<Quote, "origState", Quote, ":">> \o JSONString(st.OrigState)
      b == IF st.OrigRedirectURI = Empty THEN Empty
           ELSE <<Quote, "origRedirectURI", Quote, ":">>
                \o JSONString(st.OrigRedirectURI)
      sep == IF a # Empty /\ b # Empty THEN <<",">> ELSE Empty
  IN  <<"{">> \o a \o sep \o b \o <<"}">>

\* JSON values that are no string and no object
JSONLiterals == {"true", "false", "0"}

\* the JSON string that starts at text[i]: its value and the position after
\* its closing quote; ok is FALSE if there is none
RECURSIVE ReadChars(_, _, _)
ReadChars(text, j, acc) ==
  IF j > Len(text) THEN [ok |-> FALSE, val |-> Empty, next |-> j]
  ELSE IF text[j] = Quote THEN [ok |-> TRUE, val |-> acc, next |-> j + 1]
  ELSE IF text[j] = Backslash
    THEN IF j + 1 > Len(text) THEN [ok |-> FALSE, val |-> Empty, next |-> j]
         ELSE IF text[j+1] \in {Quote, Backslash, "/"}
           THEN ReadChars(text, j + 2, Append(acc, text[j+1]))
         ELSE IF text[j+1] = "u0026"
           THEN ReadChars(text, j + 2, Append(acc, "&"))
         ELSE [ok |-> FALSE, val |-> Empty, next |-> j]
  ELSE ReadChars(text, j + 1, Append(acc, text[j]))

ReadString(text, i) ==
  IF i <= Len(text) /\ text[i] = Quote THEN ReadChars(text, i + 1, Empty)
  ELSE [ok |-> FALSE, val |-> Empty, next |-> i]

NoState == [ok |-> FALSE, OrigState |-> Empty, OrigRedirectURI |-> Empty]

\* the members of an object from text[i] on, decoded into st
RECURSIVE ReadMembers(_, _, _)
ReadMembers(text, i, st) ==
  LET key   == ReadString(text, i)
      colon == key.ok /\ key.next <= Len(text) /\ text[key.next] = ":"
      vAt   == key.next + 1
      str   == ReadString(text, vAt)
      known == key.val \in {<<"origState">>, <<"origRedirectURI">>}
      isLit == vAt <= Len(text) /\ text[vAt] \in JSONLiterals
      isNul == vAt <= Len(text) /\ text[vAt] = "null"
      after == IF str.ok THEN str.next ELSE vAt + 1
      st2   == IF ~str.ok THEN st
               ELSE IF key.val = <<"origState">>
                 THEN [st EXCEPT !.OrigState = str.val]
               ELSE IF key.val = <<"origRedirectURI">>
                 THEN [st EXCEPT !.OrigRedirectURI = str.val]
               ELSE st
  IN  IF ~colon THEN NoState
      ELSE IF ~(str.ok \/ isNul \/ (isLit /\ ~known)) THEN NoState
      ELSE IF after = Len(text) /\ text[after] = "}" THEN st2
      ELSE IF after < Len(text) /\ text[after] = "," 
        THEN ReadMembers(text, after + 1, st2)
      ELSE NoState

\* json.Unmarshal(text, &state{}): ok is FALSE when it returns an error
Unmarshal(text) ==
  LET zero == [ok |-> TRUE, OrigState |-> Empty, OrigRedirectURI |-> Empty]
  IN  IF text = <<"null">> \/ text = <<"{", "}">> THEN zero
      ELSE IF Len(text) >= 2 /\ text[1] = "{" THEN ReadMembers(text, 2, zero)
      ELSE NoState

(***************************************************************************)
(* The data the model runs on.                                             *)
(***************************************************************************)
\* number of owning objects (client.ObjectKey values) that register bindings
MaxIdentities == 3
Identities == 1..MaxIdentities

Txt(scheme, host, path) == <<scheme, ":", "/", "/", host>> \o path

HostFoo   == <<"foo">>
HostProxy == <<"proxy">>
HostNone  == <<"nowhere">>
BadURI    == <<":", "bad">>

PathCb    == <<"/", "cb">>
PathAuth  == <<"/", "auth">>
ProxyURI  == Txt("https", "proxy", PathCb)
HubURI    == Txt("https", "hub", Empty)

\* OAUTH2Proxy (oauth2.go:31-38)
MkBinding(object, host, service, port, redirectURI, paths) ==
  [Object |-> object, Host |-> host, Service |-> service, Port |-> port,
   RedirectURI |-> redirectURI, Paths |-> paths]

\* the bindings an owning object may ask for: a plain one, one for the same
\* host with another backend and no paths, one whose host is the callback
\* host of the others, and one for that host whose redirectURI does not
\* parse
Bindings(id) ==
  { MkBinding(id, HostFoo, "bar", 8080, ProxyURI, <<PathAuth>>),
    MkBinding(id, HostFoo, "baz", 9090, ProxyURI \o <<"/", "v2">>, <<>>),
    MkBinding(id, HostProxy, "qux", 9090, HubURI, <<<<"/">>, PathAuth>>),
    MkBinding(id, HostProxy, "qux", 9090, BadURI, <<<<"/">>, PathAuth>>) }

\* "k=v" pieces in the order given, escaped as a client writes them
JoinQuery(params) ==
  LET F[i \in 0..Len(params)] ==
        IF i = 0 THEN <<>>
        ELSE F[i-1] \o (IF i = 1 THEN <<>> ELSE <<"&">>)
             \o QueryEscape(params[i][1]) \o <<"=">>
             \o QueryEscape(params[i][2])
  IN  F[Len(params)]

KState    == <<"state">>
KCode     == <<"code">>
KRedirect == <<"redirect_uri">>

\* the redirect_uri and state values the backend's own IdP sends out
AppURI      == Txt("https", "app", <<"/", "done">>)
AppQueryURI == Txt("https", "app2", <<"/", "done", "?", "x", "=", "1">>)
PlainState  == <<"XYZ">>
OddState    == <<"x", "&", Quote, "y">>

\* values of the state parameter of a callback
ValidStates ==
  { Marshal(MkState(PlainState, AppURI)), Marshal(MkState(Empty, AppURI)),
    Marshal(MkState(OddState, AppQueryURI)) }
StateValues ==
  ValidStates \cup
  { <<"invalid">>, <<"{", "}">>, <<"null">>, <<Quote, "s", Quote>>,
    Marshal(MkState(PlainState, Empty)), Marshal(MkState(PlainState, BadURI)),
    <<"{", Quote, "origState", Quote, ":", "0", "}">> }

CodeParam == <<KCode, <<"abc">>>>

\* http.Request: Method, Host, URL and the urlencoded body of a POST, and
\* whether its context is cancelled (the caller disconnects) while the
\* backend is being called
MkRequest(method, host, url, form) ==
  [Method |-> method, Host |-> host, URL |-> url, Form |-> form,
   Cancelled |-> FALSE]

\* request line "GET /path?query": the URL has neither scheme nor host
OriginForm(path, rawquery) ==
  MkURL(TRUE, Empty, Empty, Empty, path, rawquery, Empty)
\* http.NewRequest with an absolute URL, as the tests build it
AbsoluteForm(host, path, rawquery) ==
  MkURL(TRUE, <<"https">>, Empty, host, path, rawquery, Empty)

CallbackQueries ==
  { Empty, JoinQuery(<<CodeParam>>) } \cup
  { JoinQuery(<<<<KState, v>>>>) : v \in StateValues } \cup
  { JoinQuery(<<CodeParam, <<KState, v>>>>) : v \in StateValues }

CallbackForms ==
  { Empty, JoinQuery(<<<<KState, <<"invalid">>>>>>),
    JoinQuery(<<<<KState, Marshal(MkState(PlainState, AppURI))>>,
                <<KCode, <<"formcode">>>>>>),
    JoinQuery(<<<<KState, Marshal(MkState(Empty, AppQueryURI))>>>>) }

Requests ==
  \* to the host of the services
  { MkRequest("GET", HostFoo, OriginForm(p, Empty), Empty) :
      p \in {PathAuth \o <<"/", "login">>, <<"/", "other">>} }
  \cup
  \* callbacks of the external IdP
  { MkRequest("GET", HostProxy, OriginForm(PathCb, q), Empty) :
      q \in CallbackQueries }
  \cup
  { MkRequest("GET", HostProxy, AbsoluteForm(HostProxy, PathCb, q), Empty) :
      q \in { JoinQuery(<<CodeParam, <<KState, v>>>>) : v \in ValidStates } }
  \cup
  { MkRequest("POST", HostProxy, OriginForm(PathCb, q), f) :
      q \in { Empty,
              JoinQuery(<<<<KState, Marshal(MkState(PlainState, AppURI))>>>>) },
      f \in CallbackForms }
  \cup
  { MkRequest("GET", HostNone, OriginForm(<<"/", "does-not-exist">>, Empty),
              Empty) }
  \cup
  \* from a caller that disconnects before the backend has answered
  { [MkRequest("GET", HostFoo, OriginForm(PathAuth \o <<"/", "login">>, Empty),
               Empty) EXCEPT !.Cancelled = TRUE] }

\* http.Header of a response: the values of Location and of one other header
MkHeader(location, x1) == [Location |-> location, X1 |-> x1]
NoHeader == MkHeader(<<>>, <<>>)

\* what client.Do returns: an error, or a response
MkResponse(err, code, header, body) ==
  [err |-> err, StatusCode |-> code, Header |-> header, Body |-> body]
TransportError == MkResponse(TRUE, 0, NoHeader, Empty)

Authorize(params) ==
  Txt("https", "idp", <<"/", "authorize", "?">>) \o JoinQuery(params)

Locations ==
  { Authorize(<<<<<<"client_id">>, <<"c1">>>>, <<KRedirect, AppURI>>,
               <<KState, OddState>>>>),
    Authorize(<<<<KState, PlainState>>, <<KRedirect, AppQueryURI>>>>),
    Authorize(<<<<KRedirect, Txt("https", "app", Empty)>>>>),
    Authorize(<<<<KState, PlainState>>>>),
    Authorize(<<<<KRedirect, Empty>>, <<KState, PlainState>>>>),
    Authorize(<<<<KRedirect, BadURI>>, <<KState, PlainState>>>>),
    Txt("https", "idp", <<"/", "home">>),
    BadURI }

BackendResponses ==
  { TransportError,
    MkResponse(FALSE, 200, MkHeader(<<>>, <<<<"foo">>, <<"bar">>>>), <<"page">>) }
  \cup
  { MkResponse(FALSE, 302, MkHeader(<<l>>, <<<<"foo">>, <<"bar">>>>), <<"moved">>) :
      l \in Locations }

\* what a backend answers when it is sent a callback
CallbackAnswers ==
  { TransportError, MkResponse(FALSE, 200, MkHeader(<<>>, <<>>), <<"page">>) }

\* what the backend may answer to a request
BackendFor(r) ==
  IF r.URL.Path = PathCb THEN CallbackAnswers ELSE BackendResponses

(***************************************************************************)
(* The handlers of HttpProxy, as functions of the registry, the request    *)
(* and the backend's answer.                                               *)
(***************************************************************************)
StatusSeeOther            == 303
StatusBadRequest          == 400
StatusInternalServerError == 500
StatusServiceUnavailable  == 503

\* http.ResponseWriter: the status written, the calls of WriteHeader that
\* were made, the headers, the body
MkWriter(code, header, body) ==
  [Code |-> code, WriteHeader |-> <<code>>, Header |-> header, Body |-> body]

\* the http.ResponseWriter nothing has been written to
NoWriter ==
  [Code |-> 0, WriteHeader |-> <<>>, Header |-> NoHeader, Body |-> Empty]

\* what one run of ServeHTTP did: the response written, the backend calls
\* made (clone.URL.Host), the leg taken with the binding it was taken for,
\* the state struct the inbound leg decoded, whether res.Body was closed,
\* and the context the backend was called with
MkOutcome(w, calls, leg, idx, st, closed) ==
  [w |-> w, calls |-> calls, leg |-> leg, idx |-> idx, st |-> st,
   closed |-> closed, swapped |-> FALSE, ctx |-> ""]

\* the context of the request sent to the backend: r.Clone(context.TODO())
\* (oauth2.go:124), which is never cancelled
CloneContext == "TODO"

OnlyStatus(code) == MkWriter(code, NoHeader, Empty)

\* a faulty variant of matchPath:
\* every path matches, whatever the prefixes
matchPathAny(p, list) == TRUE

\* matchPath (oauth2.go:190-198)
matchPath(p, list) == \E i \in 1..Len(list) : HasPrefix(p, list[i])

\* a faulty variant of EnvelopeOf:
\* the two values land in each other's field
EnvelopeOfSwapped(vals) == MkState(Get(vals, KRedirect), Get(vals, KState))

\* the envelope built from the Location's query (oauth2.go:149-152)
EnvelopeOf(vals) == MkState(Get(vals, KState), Get(vals, KRedirect))

\* a faulty variant of NewRedirectURI:
\* the binding's redirectURI as it is (the path
\* of the original redirect_uri is lost)
NewRedirectURIAsBound(redirectUri, origRedirectUri) == String(redirectUri)

\* the redirect_uri sent on: the binding's redirectURI with the path of the
\* original redirect_uri (oauth2.go:161-169)
NewRedirectURI(redirectUri, origRedirectUri) ==
  String([redirectUri EXCEPT !.Path = origRedirectUri.Path])

\* a faulty variant of SwapQuery:
\* the new query holds state and redirect_uri and nothing else
SwapQueryAlone(vals, b, redirectUri, origRedirectUri) ==
  Encode(Set(Set(<<>>, KState, b), KRedirect,
             NewRedirectURI(redirectUri, origRedirectUri)))

\* the Location's query after the swap (oauth2.go:168-170)
SwapQuery(vals, b, redirectUri, origRedirectUri) ==
  Encode(Set(Set(vals, KState, b), KRedirect,
             NewRedirectURI(redirectUri, origRedirectUri)))

\* Header.Add: the value goes after the values the header already has
Add(values, v) == Append(values, v)

\* a faulty variant of CopyHeader:
\* of every header only the first value is set
CopyHeaderFirst(header) ==
  MkHeader(IF header.Location = <<>> THEN <<>> ELSE <<header.Location[1]>>,
           IF header.X1 = <<>> THEN <<>> ELSE <<header.X1[1]>>)

\* the headers copied to the caller (oauth2.go:176-180): every value of
\* every header is added, in order, to the caller's empty header
CopyHeader(header) ==
  LET all(vs) ==
        LET F[i \in 0..Len(vs)] == IF i = 0 THEN <<>> ELSE Add(F[i-1], vs[i])
        IN  F[Len(vs)]
  IN  MkHeader(all(header.Location), all(header.X1))

\* what changeRedirectURI leaves behind; it has called the backend once
Outbound(r, d, idx, w, closed) ==
  [MkOutcome(w, <<[Service |-> d.Service, Port |-> d.Port,
                   Path |-> r.URL.Path]>>,
             "outbound", idx, NoState, closed)
   EXCEPT !.ctx = CloneContext]

\* a faulty variant of Forward:
\* the caller is answered 200 whatever the backend's status
ForwardStatusOK(r, d, idx, res, header) ==
  Outbound(r, d, idx, MkWriter(200, CopyHeader(header), res.Body), TRUE)

\* oauth2.go:176-187: headers, status and body go to the caller, and the
\* backend's body is closed
Forward(r, d, idx, res, header) ==
  Outbound(r, d, idx, MkWriter(res.StatusCode, CopyHeader(header), res.Body),
           TRUE)

\* oauth2.go:155-172, with both URLs parsed
SwapParsed(r, d, idx, res, u, vals, b, origRedirectUri, redirectUri) ==
  IF ~origRedirectUri.ok
    THEN Outbound(r, d, idx, OnlyStatus(StatusBadRequest), FALSE)
  ELSE IF ~redirectUri.ok
    THEN Outbound(r, d, idx, OnlyStatus(StatusInternalServerError), FALSE)
  ELSE [Forward(r, d, idx, res,
                [res.Header EXCEPT !.Location =
                   << String([u EXCEPT !.RawQuery =
                        SwapQuery(vals, b, redirectUri, origRedirectUri)]) >>])
        EXCEPT !.swapped = TRUE]

\* a faulty variant of SwapValues:
\* the swap is made whether or not there is a redirect_uri
SwapValuesAlways(r, d, idx, res, u, vals) ==
  SwapParsed(r, d, idx, res, u, vals, Marshal(EnvelopeOf(vals)),
             Parse(Get(vals, KRedirect)), Parse(d.RedirectURI))

\* oauth2.go:147-173, with the Location's query parsed
SwapValues(r, d, idx, res, u, vals) ==
  IF Get(vals, KRedirect) # Empty
  THEN SwapParsed(r, d, idx, res, u, vals, Marshal(EnvelopeOf(vals)),
                  Parse(Get(vals, KRedirect)), Parse(d.RedirectURI))
  ELSE Forward(r, d, idx, res, res.Header)

\* a faulty variant of SwapLocation:
\* a Location that does not parse is sent on with the rest of the response
SwapLocationForwards(r, d, idx, res, u) ==
  IF ~u.ok THEN Forward(r, d, idx, res, res.Header)
  ELSE SwapValues(r, d, idx, res, u, Query(u.RawQuery))

\* oauth2.go:141-173, with the Location parsed
SwapLocation(r, d, idx, res, u) ==
  IF ~u.ok THEN Outbound(r, d, idx, OnlyStatus(StatusBadRequest), FALSE)
  ELSE SwapValues(r, d, idx, res, u, Query(u.RawQuery))

\* a faulty variant of changeRedirectURI:
\* a backend call that failed is made a second time
changeRedirectURIRetry(r, d, idx, res) ==
  IF res.err
    THEN [Outbound(r, d, idx, OnlyStatus(StatusBadRequest), FALSE)
          EXCEPT !.calls = @ \o @]
  ELSE IF res.Header.Location # <<>> /\ matchPath(r.URL.Path, d.Paths)
    THEN SwapLocation(r, d, idx, res, Parse(res.Header.Location[1]))
  ELSE Forward(r, d, idx, res, res.Header)

\* changeRedirectURI (oauth2.go:121-188); res is what client.Do returns
changeRedirectURI(r, d, idx, res) ==
  IF res.err THEN Outbound(r, d, idx, OnlyStatus(StatusBadRequest), FALSE)
  ELSE IF res.Header.Location # <<>> /\ matchPath(r.URL.Path, d.Paths)
    THEN SwapLocation(r, d, idx, res, Parse(res.Header.Location[1]))
  ELSE Forward(r, d, idx, res, res.Header)

\* the parameters the inbound leg reads (oauth2.go:202)
IncomingValues(r) == Query(r.URL.RawQuery)

\* a faulty variant of RecoverQuery:
\* state is set even when the original was empty
RecoverQueryAlwaysSet(vals, st) == Encode(Set(vals, KState, st.OrigState))

\* the query of the redirect back: state replaced by the original state, or
\* dropped when there was none (oauth2.go:225-231)
RecoverQuery(vals, st) ==
  Encode(IF st.OrigState # Empty THEN Set(vals, KState, st.OrigState)
         ELSE Del(vals, KState))

\* the URL redirected to (oauth2.go:222-231)
RecoverURL(url, u, vals, st) ==
  [url EXCEPT !.Path = u.Path, !.Host = u.Host,
              !.RawQuery = RecoverQuery(vals, st)]

\* what recoverIncomingState leaves behind; it calls no backend
Inbound(idx, w, st) == MkOutcome(w, <<>>, "inbound", idx, st, FALSE)

\* oauth2.go:215-238, with the envelope's redirect URI parsed
RecoverParsed(r, idx, vals, st, u) ==
  IF ~u.ok THEN Inbound(idx, OnlyStatus(StatusBadRequest), st)
  ELSE Inbound(idx,
               MkWriter(StatusSeeOther,
                        MkHeader(<<String(RecoverURL(r.URL, u, vals, st))>>, <<>>),
                        Empty),
               st)

\* oauth2.go:208-238, with the state decoded
RecoverState(r, idx, vals, st) ==
  IF ~st.ok THEN Inbound(idx, OnlyStatus(StatusBadRequest), NoState)
  ELSE RecoverParsed(r, idx, vals, st, Parse(st.OrigRedirectURI))

\* oauth2.go:202-238, with the parameters read
RecoverValues(r, idx, vals) ==
  RecoverState(r, idx, vals, Unmarshal(Get(vals, KState)))

\* a faulty variant of recoverIncomingState:
\* a binding without path prefixes refuses the callback
recoverIncomingStateByPaths(r, d, idx) ==
  IF d.Paths = <<>> THEN Inbound(idx, OnlyStatus(StatusBadRequest), NoState)
  ELSE RecoverValues(r, idx, IncomingValues(r))

\* recoverIncomingState (oauth2.go:201-239)
recoverIncomingState(r, d, idx) == RecoverValues(r, idx, IncomingValues(r))

\* a faulty variant of NoMatch:
\* the loop ends without a status being written
NoMatchSilent == MkOutcome(NoWriter, <<>>, "none", 0, NoState, FALSE)

\* the answer when no binding matches (oauth2.go:114-115)
NoMatch == MkOutcome(OnlyStatus(StatusServiceUnavailable), <<>>, "none", 0,
                     NoState, FALSE)

\* the answer when a binding's redirectURI does not parse (oauth2.go:95-99)
BadBinding(idx) == MkOutcome(OnlyStatus(StatusInternalServerError), <<>>,
                             "config", idx, NoState, FALSE)

\* the loop of ServeHTTP over h.dst from index i on (oauth2.go:93-116)
RECURSIVE Scan(_, _, _, _)
Scan(reg, i, r, res) ==
  IF i > Len(reg) THEN NoMatch
  ELSE LET u == Parse(reg[i].RedirectURI)
       IN  IF ~u.ok THEN BadBinding(i)
           ELSE IF reg[i].Host = r.Host
             THEN changeRedirectURI(r, reg[i], i, res)
           ELSE IF u.Host = r.Host
             THEN recoverIncomingState(r, reg[i], i)
           ELSE Scan(reg, i + 1, r, res)

\* a faulty variant of Serve:
\* of the bindings with the request's host, the last one registered is used
ServeLastMatch(reg, r, res) ==
  LET hits == {i \in 1..Len(reg) : reg[i].Host = r.Host}
      last == CHOOSE i \in hits : \A j \in hits : j <= i
  IN  IF hits = {} THEN Scan(reg, 1, r, res)
      ELSE changeRedirectURI(r, reg[last], last, res)

\* ServeHTTP (oauth2.go:90-116)
Serve(reg, r, res) == Scan(reg, 1, r, res)

(***************************************************************************)
(* The registry (oauth2.go:54-88).                                         *)
(***************************************************************************)
\* index of the first binding of the object, 0 if it has none
Find(reg, obj) ==
  IF \E k \in 1..Len(reg) : reg[k].Object = obj
  THEN CHOOSE k \in 1..Len(reg) :
         reg[k].Object = obj /\ \A j \in 1..(k-1) : reg[j].Object # obj
  ELSE 0

\* a faulty variant of Update:
\* only the backend's coordinates are copied
UpdateBackendOnly(v, d) ==
  [v EXCEPT !.Host = d.Host, !.Port = d.Port, !.Service = d.Service]

\* the fields RegisterOrUpdate copies into the entry it found
\* (oauth2.go:74-78)
Update(v, d) ==
  [v EXCEPT !.Host = d.Host, !.Port = d.Port, !.Service = d.Service,
            !.RedirectURI = d.RedirectURI, !.Paths = d.Paths]

\* a faulty variant of Registered:
\* a new binding goes in front of the others
RegisteredInFront(reg, d) ==
  IF Find(reg, d.Object) # 0
  THEN [reg EXCEPT ![Find(reg, d.Object)] = Update(reg[Find(reg, d.Object)], d)]
  ELSE <<d>> \o reg

\* h.dst after RegisterOrUpdate(d) (oauth2.go:67-88)
Registered(reg, d) ==
  LET k == Find(reg, d.Object)
  IN  IF k # 0 THEN [reg EXCEPT ![k] = Update(reg[k], d)]
      ELSE Append(reg, d)

\* a faulty variant of Remove:
\* the last binding takes the place of the one removed
RemoveSwapLast(reg, k) ==
  [i \in 1..(Len(reg) - 1) |-> IF i = k THEN reg[Len(reg)] ELSE reg[i]]

\* append(h.dst[:k], h.dst[k+1:]...) (oauth2.go:58)
Remove(reg, k) == SubSeq(reg, 1, k - 1) \o SubSeq(reg, k + 1, Len(reg))

\* a faulty variant of Unregistered:
\* when no binding has the identity, the first one goes
UnregisteredOrFirst(reg, obj) ==
  IF Find(reg, obj) # 0 THEN Remove(reg, Find(reg, obj))
  ELSE IF reg # <<>> THEN Remove(reg, 1) ELSE reg

\* h.dst after Unregister(obj) (oauth2.go:55-64)
Unregistered(reg, obj) ==
  LET k == Find(reg, obj)
  IN  IF k # 0 THEN Remove(reg, k) ELSE reg

(***************************************************************************)
(* The state machine.  One call runs at a time: a call of the registration *)
(* API or one request, whose result stays in the state until the caller    *)
(* has taken it (Return).                                                  *)
(***************************************************************************)
VARIABLES
  dst,      \* HttpProxy.dst, the registered bindings in registration order
  op,       \* the call whose result is held: "idle" if none
  binding,  \* the argument of RegisterOrUpdate
  object,   \* the argument of Unregister
  err,      \* the error the registration call returned
  before,   \* dst as the call found it
  req,      \* the request of ServeHTTP
  res,      \* what the backend answered, if it was called
  out,      \* what ServeHTTP did
  flow,     \* for a callback of the external IdP: the flow it belongs to
  hdr,      \* h.dst as a slice: its array, len and cap
  arrays,   \* the arrays slices of h.dst point into, as cells of pointers
  objs,     \* the OAUTH2Proxy structs the cells point to
  mutex,    \* h.mutex: the goroutine that holds it, 0 if none
  proc,     \* each goroutine's call of the registration API and its locals
  started,  \* number of calls started by the goroutines, requests included
  srv       \* the goroutine of the server that handles a request

\* the memory the goroutines share, and the goroutines
mem == <<hdr, arrays, objs, mutex, proc, started, srv>>

vars == <<dst, op, binding, object, err, before, req, res, out, flow, mem>>

NoBinding  == MkBinding(0, Empty, "", 0, Empty, <<>>)
NoRequest  == MkRequest("", Empty, ParseError, Empty)
NoResponse == MkResponse(FALSE, 0, NoHeader, Empty)
NoOutcome  == MkOutcome(NoWriter, <<>>, "", 0, NoState, FALSE)
NoFlow     == [on |-> FALSE, R |-> Empty, S |-> Empty, code |-> Empty]

Idle ==
  /\ op = "idle" /\ binding = NoBinding /\ object = 0 /\ err = "nil"
  /\ before = <<>> /\ req = NoRequest /\ res = NoResponse
  /\ out = NoOutcome /\ flow = NoFlow

(***************************************************************************)
(* h.dst in memory, for calls of the registration API that overlap.  A     *)
(* slice is a header (array, len, cap); its cells hold pointers to the     *)
(* OAUTH2Proxy structs.  Arrays and structs are named by the number of the *)
(* call that made them; those of a registry built before the goroutines    *)
(* start have the names after these.                                       *)
(***************************************************************************)
\* goroutines that call the registration API, and the calls that are made
\* in all, of the registration API and of ServeHTTP
MaxCallers == 2
MaxCalls == 2
Callers == 1..MaxCallers
Cells == 1..(MaxCalls + MaxIdentities)
\* the array of a registry built before the goroutines start
FirstArray == MaxCalls + 1

MkSlice(ptr, len, cap) == [ptr |-> ptr, len |-> len, cap |-> cap]
\* the nil slice New leaves in h.dst
NilSlice == MkSlice(0, 0, 0)

\* a goroutine: where it is in its call, the call's number and arguments,
\* the slice its range statement evaluated with the index k it is at, the
\* pointer v it found, the slice t it read for append with the cell j it
\* is at, and what its last call returned
MkProc(pc, n, d, obj, rng, k, v, t, j, ret) ==
  [pc |-> pc, n |-> n, d |-> d, obj |-> obj, rng |-> rng, k |-> k, v |-> v,
   t |-> t, j |-> j, ret |-> ret]
NoProc == MkProc("idle", 0, NoBinding, 0, NilSlice, 0, 0, NilSlice, 0, "")

\* the goroutine that serves a request: where it is in ServeHTTP, the slice
\* its range statement evaluated with the index i it is at, the pointer v
\* it found, the redirectURI u it parsed, and the fields of *v it has read
MkSrv(pc, rng, i, v, u, d) ==
  [pc |-> pc, rng |-> rng, i |-> i, v |-> v, u |-> u, d |-> d]
NoSrv == MkSrv("idle", NilSlice, 0, 0, ParseError, NoBinding)

\* no goroutine has called yet
NoCalls ==
  /\ hdr = NilSlice /\ mutex = 0 /\ started = 0
  /\ arrays = [c \in Cells |-> <<>>]
  /\ objs = [c \in Cells |-> NoBinding]
  /\ proc = [p \in Callers |-> NoProc]
  /\ srv = NoSrv

\* New (oauth2.go:47-52): no binding is registered
Init == dst = <<>> /\ Idle /\ NoCalls

\* a faulty variant of RegisterOrUpdate:
\* the call returns before the registry holds what it was given
RegisterOrUpdateLate(d) ==
  /\ op = "idle"
  /\ dst' = dst
  /\ op' = "RegisterOrUpdate" /\ binding' = d /\ err' = "nil"
  /\ before' = dst
  /\ UNCHANGED <<object, req, res, out, flow, mem>>

RegisterOrUpdate(d) ==
  /\ op = "idle"
  /\ dst' = Registered(dst, d)
  /\ op' = "RegisterOrUpdate" /\ binding' = d /\ err' = "nil"
  /\ before' = dst
  /\ UNCHANGED <<object, req, res, out, flow, mem>>

Unregister(obj) ==
  /\ op = "idle"
  /\ dst' = Unregistered(dst, obj)
  /\ op' = "Unregister" /\ object' = obj
  /\ err' = IF Find(dst, obj) # 0 THEN "nil" ELSE "ErrServiceNotRegistered"
  /\ before' = dst
  /\ UNCHANGED <<binding, req, res, out, flow, mem>>

\* a faulty variant of Hold:
\* serving a request takes the binding it was routed to out of the registry
HoldDropsRouted(r, b, f, o) ==
  /\ o.calls # <<>> \/ b = TransportError
  /\ op' = "ServeHTTP" /\ req' = r /\ out' = o
  /\ res' = IF o.calls # <<>> THEN b ELSE NoResponse
  /\ before' = dst /\ flow' = f
  /\ binding' = NoBinding /\ object' = 0 /\ err' = "nil"
  /\ dst' = IF o.idx # 0 THEN Remove(dst, o.idx) ELSE dst
  /\ UNCHANGED mem

\* the result o of serving request r is held for the caller; the backend's
\* answer b is kept only if the backend was asked
Hold(r, b, f, o) ==
  /\ o.calls # <<>> \/ b = TransportError
  /\ op' = "ServeHTTP" /\ req' = r /\ out' = o
  /\ res' = IF o.calls # <<>> THEN b ELSE NoResponse
  /\ before' = dst /\ flow' = f
  /\ binding' = NoBinding /\ object' = 0 /\ err' = "nil"
  /\ UNCHANGED <<dst, mem>>

\* one request through ServeHTTP; b is what the backend answers if asked
Handle(r, b, f) == Hold(r, b, f, Serve(dst, r, b))

ServeHTTP(r, b) == op = "idle" /\ Handle(r, b, NoFlow)

\* the parameters of a Location
LocationValues(location) == Query(Parse(location).RawQuery)

\* the request the external IdP sends the user agent to: the redirect_uri it
\* was given, with a code and the state it was given (RFC 6749, 4.1.2)
CallbackTo(target, code, state) ==
  MkRequest("GET", target.Host,
            OriginForm(target.Path,
                       (IF target.RawQuery = Empty THEN Empty
                        ELSE target.RawQuery \o <<"&">>)
                       \o JoinQuery(<<<<KCode, code>>, <<KState, state>>>>)),
            Empty)

CallbackFlow(code, sent, given, target, b) ==
  /\ target.ok /\ target.Host # Empty
  /\ Handle(CallbackTo(target, code, Get(given, KState)), b,
            [on |-> TRUE, R |-> Get(sent, KRedirect), S |-> Get(sent, KState),
             code |-> code])

CallbackGiven(code, sent, given, b) ==
  CallbackFlow(code, sent, given, Parse(Get(given, KRedirect)), b)

\* The external IdP follows a swapped Location, and the proxy serves the
\* callback.  sent: the parameters the backend sent; given: those the IdP got.
IdPCallback(code, b) ==
  /\ op = "ServeHTTP" /\ out.swapped
  /\ CallbackGiven(code, LocationValues(res.Header.Location[1]),
                   LocationValues(out.w.Header.Location[1]), b)

\* the caller has taken the result
Return ==
  /\ op # "idle"
  /\ op' = "idle" /\ binding' = NoBinding /\ object' = 0 /\ err' = "nil"
  /\ before' = <<>> /\ req' = NoRequest /\ res' = NoResponse
  /\ out' = NoOutcome /\ flow' = NoFlow
  /\ UNCHANGED <<dst, mem>>

(***************************************************************************)
(* The registration API step by step, one access to shared memory at a     *)
(* time.  RegisterOrUpdate runs under h.mutex (oauth2.go:68-69);           *)
(* Unregister takes no lock (oauth2.go:55-64).                             *)
(***************************************************************************)
\* the bindings h.dst holds: the structs its cells point to
Slice(h, a, o) == [i \in 1..h.len |-> o[a[h.ptr][i]]]

\* the versions of its binding an owning object asks for
Versions(id) ==
  { MkBinding(id, HostFoo, "bar", 8080, ProxyURI, <<PathAuth>>),
    MkBinding(id, HostProxy, "qux", 9090, HubURI, <<<<"/">>, PathAuth>>) }

\* the fields RegisterOrUpdate writes, in the order it writes them
\* (oauth2.go:74-78)
Fields == <<"Host", "Port", "Service", "RedirectURI", "Paths">>

\* append grows a full small slice to twice its capacity
GrowCap(cap) == IF cap = 0 THEN 1 ELSE 2 * cap

\* goroutine p is at pc, and no goroutine has panicked
At(p, pc) == proc[p].pc = pc /\ \A q \in Callers : proc[q].pc # "panic"

\* a step of goroutine p that leaves it as r
Step(p, r) ==
  /\ proc' = [proc EXCEPT ![p] = r]
  /\ dst' = Slice(hdr', arrays', objs')
  /\ UNCHANGED <<op, binding, object, err, before, req, res, out, flow, srv>>

\* the call returns ret; its number and arguments stay on record
Returned(p, ret) ==
  [NoProc EXCEPT !.ret = ret, !.n = proc[p].n, !.d = proc[p].d,
                 !.obj = proc[p].obj]

\* the struct cell k of the range points to
Pointee(p) == objs[arrays[proc[p].rng.ptr][proc[p].k]]

GoRegisterOrUpdate(p, d) ==
  /\ At(p, "idle") /\ started < MaxCalls
  /\ started' = started + 1
  /\ UNCHANGED <<hdr, arrays, objs, mutex>>
  /\ Step(p, [NoProc EXCEPT !.pc = "Lock", !.n = started + 1, !.d = d,
                            !.obj = d.Object])

\* a faulty variant of Lock:
\* the goroutine goes on whether or not another holds the mutex
LockNoWait(p) ==
  /\ At(p, "Lock")
  /\ mutex' = p
  /\ UNCHANGED <<hdr, arrays, objs, started>>
  /\ Step(p, [proc[p] EXCEPT !.pc = "RegNext", !.rng = hdr, !.k = 1])

\* h.mutex.Lock() (oauth2.go:68)
Lock(p) ==
  /\ At(p, "Lock") /\ mutex = 0
  /\ mutex' = p
  /\ UNCHANGED <<hdr, arrays, objs, started>>
  /\ Step(p, [proc[p] EXCEPT !.pc = "RegNext", !.rng = hdr, !.k = 1])

\* for _, v := range h.dst { if v.Object == dst.Object (oauth2.go:71-72)
RegNext(p) ==
  /\ At(p, "RegNext")
  /\ UNCHANGED <<hdr, arrays, objs, mutex, started>>
  /\ Step(p, IF proc[p].k > proc[p].rng.len
               THEN [proc[p] EXCEPT !.pc = "RegAppend"]
             ELSE IF Pointee(p).Object = proc[p].obj
               THEN [proc[p] EXCEPT !.pc = "RegUpdate", !.j = 1,
                       !.v = arrays[proc[p].rng.ptr][proc[p].k]]
             ELSE [proc[p] EXCEPT !.k = @ + 1])

\* v.Host = dst.Host ... v.Paths = dst.Paths, one field at a time, and
\* after the last the return with its deferred Unlock (oauth2.go:74-80)
RegUpdate(p) ==
  /\ At(p, "RegUpdate")
  /\ objs' = [objs EXCEPT ![proc[p].v][Fields[proc[p].j]] =
                                        proc[p].d[Fields[proc[p].j]]]
  /\ mutex' = IF proc[p].j = Len(Fields) THEN 0 ELSE mutex
  /\ UNCHANGED <<hdr, arrays, started>>
  /\ Step(p, IF proc[p].j = Len(Fields) THEN Returned(p, "nil")
             ELSE [proc[p] EXCEPT !.j = @ + 1])

\* append(h.dst, dst) with the slice t it read: the cell after the last
\* is written in place if there is room, in a new array if not
\* (oauth2.go:85, right-hand side)
Appended(t, n, a) ==
  IF t.len < t.cap THEN [a EXCEPT ![t.ptr][t.len + 1] = n]
  ELSE [a EXCEPT ![n] = [i \in 1..GrowCap(t.cap) |->
                           IF i <= t.len THEN a[t.ptr][i]
                           ELSE IF i = t.len + 1 THEN n ELSE 0]]

AppendedSlice(t, n) ==
  IF t.len < t.cap THEN MkSlice(t.ptr, t.len + 1, t.cap)
  ELSE MkSlice(n, t.len + 1, GrowCap(t.cap))

RegAppend(p) ==
  /\ At(p, "RegAppend")
  /\ arrays' = Appended(hdr, proc[p].n, arrays)
  /\ objs' = [objs EXCEPT ![proc[p].n] = proc[p].d]
  /\ UNCHANGED <<hdr, mutex, started>>
  /\ Step(p, [proc[p] EXCEPT !.pc = "RegStore",
                             !.t = AppendedSlice(hdr, proc[p].n)])

\* h.dst = ... and the return with its deferred Unlock (oauth2.go:85-87)
RegStore(p) ==
  /\ At(p, "RegStore")
  /\ hdr' = proc[p].t /\ mutex' = 0
  /\ UNCHANGED <<arrays, objs, started>>
  /\ Step(p, Returned(p, "nil"))

\* Unregister starts with its range over h.dst; it takes no lock
\* (oauth2.go:55-56)
GoUnregister(p, obj) ==
  /\ At(p, "idle") /\ started < MaxCalls
  /\ started' = started + 1
  /\ UNCHANGED <<hdr, arrays, objs, mutex>>
  /\ Step(p, [NoProc EXCEPT !.pc = "UnregNext", !.n = started + 1,
                            !.obj = obj, !.rng = hdr, !.k = 1])

\* for k, v := range h.dst { if v.Object == obj (oauth2.go:56-57, 63)
UnregNext(p) ==
  /\ At(p, "UnregNext")
  /\ UNCHANGED <<hdr, arrays, objs, mutex, started>>
  /\ Step(p, IF proc[p].k > proc[p].rng.len
               THEN Returned(p, "ErrServiceNotRegistered")
             ELSE IF Pointee(p).Object = proc[p].obj
               THEN [proc[p] EXCEPT !.pc = "UnregSlice"]
             ELSE [proc[p] EXCEPT !.k = @ + 1])

\* h.dst[:k] and h.dst[k+1:] of the slice as it is now: a panic if it has
\* become shorter than k+1 (oauth2.go:58)
UnregSlice(p) ==
  /\ At(p, "UnregSlice")
  /\ UNCHANGED <<hdr, arrays, objs, mutex, started>>
  /\ Step(p, IF proc[p].k > hdr.len THEN [proc[p] EXCEPT !.pc = "panic"]
             ELSE [proc[p] EXCEPT !.pc = "UnregMove", !.t = hdr,
                                  !.j = proc[p].k])

\* append moves the cells after k down by one, in the array itself
\* (oauth2.go:58)
UnregMove(p) ==
  /\ At(p, "UnregMove") /\ proc[p].j < proc[p].t.len
  /\ arrays' = [arrays EXCEPT ![proc[p].t.ptr][proc[p].j] =
                                arrays[proc[p].t.ptr][proc[p].j + 1]]
  /\ UNCHANGED <<hdr, objs, mutex, started>>
  /\ Step(p, [proc[p] EXCEPT !.j = @ + 1])

\* h.dst = the slice one shorter; return nil (oauth2.go:58-59)
UnregStore(p) ==
  /\ At(p, "UnregMove") /\ proc[p].j >= proc[p].t.len
  /\ hdr' = MkSlice(proc[p].t.ptr, proc[p].t.len - 1, proc[p].t.cap)
  /\ UNCHANGED <<arrays, objs, mutex, started>>
  /\ Step(p, Returned(p, "nil"))

(***************************************************************************)
(* ServeHTTP step by step, one read of shared memory at a time.  It takes  *)
(* no lock (oauth2.go:90-116, 121-188).                                    *)
(***************************************************************************)
\* the requests served while the registry is being changed, and what the
\* backend answers
RaceRequests ==
  { MkRequest("GET", h, OriginForm(PathAuth \o <<"/", "login">>, Empty), Empty) :
      h \in {HostFoo, HostProxy} }
RaceAnswer ==
  MkResponse(FALSE, 302,
             MkHeader(<<Authorize(<<<<KState, PlainState>>,
                                    <<KRedirect, AppQueryURI>>>>)>>, <<>>),
             <<"moved">>)

\* the server is at pc, and no goroutine has panicked
SrvAt(pc) == srv.pc = pc /\ \A q \in Callers : proc[q].pc # "panic"

\* a step of the server that leaves it as s
SrvStep(s) ==
  /\ srv' = s
  /\ UNCHANGED <<dst, binding, object, err, before, flow>>
  /\ UNCHANGED <<hdr, arrays, objs, mutex, proc, started>>

\* ServeHTTP returns, having done o
SrvDone(s, o) ==
  /\ op' = "ServeHTTP" /\ out' = o
  /\ UNCHANGED <<req, res>>
  /\ SrvStep([s EXCEPT !.pc = "done"])

\* a request arrives: for _, dst := range h.dst (oauth2.go:93)
GoServeHTTP(r) ==
  /\ SrvAt("idle") /\ started < MaxCalls
  /\ started' = started + 1
  /\ req' = r
  /\ srv' = [NoSrv EXCEPT !.pc = "SrvNext", !.rng = hdr, !.i = 1]
  /\ UNCHANGED <<dst, op, binding, object, err, before, res, out, flow>>
  /\ UNCHANGED <<hdr, arrays, objs, mutex, proc>>

\* the next cell of the range, or 503 after the last (oauth2.go:93, 114-115)
SrvNext ==
  /\ SrvAt("SrvNext")
  /\ IF srv.i > srv.rng.len
       THEN SrvDone(srv, NoMatch)
     ELSE /\ UNCHANGED <<op, req, res, out>>
          /\ SrvStep([srv EXCEPT !.pc = "SrvParse",
                                 !.v = arrays[srv.rng.ptr][srv.i]])

\* url.Parse(dst.RedirectURI) (oauth2.go:94-99)
SrvParse ==
  /\ SrvAt("SrvParse")
  /\ IF ~Parse(objs[srv.v].RedirectURI).ok
       THEN SrvDone(srv, BadBinding(srv.i))
     ELSE /\ UNCHANGED <<op, req, res, out>>
          /\ SrvStep([srv EXCEPT !.pc = "SrvHost",
                                 !.u = Parse(objs[srv.v].RedirectURI),
                                 !.d = [NoBinding EXCEPT
                                          !.Object = objs[srv.v].Object]])

\* dst.Host == r.Host, else u.Host == r.Host, else the next binding
\* (oauth2.go:102-111)
SrvHost ==
  /\ SrvAt("SrvHost")
  /\ IF objs[srv.v].Host = req.Host
       THEN /\ UNCHANGED <<op, req, res, out>>
            /\ SrvStep([srv EXCEPT !.pc = "SrvService",
                                   !.d.Host = objs[srv.v].Host])
     ELSE IF srv.u.Host = req.Host
       THEN SrvDone(srv, recoverIncomingState(req, srv.d, srv.i))
     ELSE /\ UNCHANGED <<op, req, res, out>>
          /\ SrvStep([srv EXCEPT !.pc = "SrvNext", !.i = @ + 1])

\* dst.Service, for clone.URL.Host (oauth2.go:126)
SrvService ==
  /\ SrvAt("SrvService")
  /\ UNCHANGED <<op, req, res, out>>
  /\ SrvStep([srv EXCEPT !.pc = "SrvPort", !.d.Service = objs[srv.v].Service])

\* dst.Port, and the call of the backend (oauth2.go:126-130)
SrvPort ==
  /\ SrvAt("SrvPort")
  /\ res' = RaceAnswer
  /\ UNCHANGED <<op, req, out>>
  /\ SrvStep([srv EXCEPT !.pc = "SrvPaths", !.d.Port = objs[srv.v].Port])

\* the fields read so far, with the paths that are read now
WithPaths == [srv.d EXCEPT !.Paths = objs[srv.v].Paths]

\* matchPath(r.URL.Path, dst.Paths) (oauth2.go:140); without a match the
\* response is forwarded as it is
SrvPaths ==
  /\ SrvAt("SrvPaths")
  /\ IF res.Header.Location # <<>> /\ matchPath(req.URL.Path, WithPaths.Paths)
       THEN /\ UNCHANGED <<op, req, res, out>>
            /\ SrvStep([srv EXCEPT !.pc = "SrvRedirect", !.d = WithPaths])
     ELSE SrvDone([srv EXCEPT !.d = WithPaths],
                  changeRedirectURI(req, WithPaths, srv.i, res))

\* the fields read so far, with the redirectURI that is read now
WithRedirectURI == [srv.d EXCEPT !.RedirectURI = objs[srv.v].RedirectURI]

\* url.Parse(dst.RedirectURI) for the swap, and the rest of
\* changeRedirectURI (oauth2.go:161-187)
SrvRedirect ==
  /\ SrvAt("SrvRedirect")
  /\ SrvDone([srv EXCEPT !.d = WithRedirectURI],
             changeRedirectURI(req, WithRedirectURI, srv.i, res))

(***************************************************************************)
(* The registries the goroutines find: built by calls of RegisterOrUpdate  *)
(* that have returned, one per owning object.                              *)
(***************************************************************************)
\* the capacity of h.dst after k appends to the nil slice
RECURSIVE CapOf(_)
CapOf(k) ==
  IF k = 0 THEN 0
  ELSE IF k <= CapOf(k - 1) THEN CapOf(k - 1) ELSE GrowCap(CapOf(k - 1))

RaceRegistries ==
  UNION { { reg \in [1..k -> UNION { Versions(id) : id \in Identities }] :
              \A i \in 1..k : reg[i].Object = i } : k \in 0..MaxIdentities }

\* h.dst holds reg, appended binding by binding
Built(reg) ==
  /\ dst = reg /\ before = reg
  /\ hdr = IF reg = <<>> THEN NilSlice
           ELSE MkSlice(FirstArray, Len(reg), CapOf(Len(reg)))
  /\ arrays = [c \in Cells |->
                 IF c = FirstArray /\ reg # <<>>
                 THEN [i \in 1..CapOf(Len(reg)) |->
                         IF i <= Len(reg) THEN MaxCalls + i ELSE 0]
                 ELSE <<>>]
  /\ objs = [c \in Cells |->
               IF c > MaxCalls /\ c - MaxCalls <= Len(reg)
               THEN reg[c - MaxCalls] ELSE NoBinding]
  /\ mutex = 0 /\ started = 0
  /\ proc = [p \in Callers |-> NoProc]
  /\ srv = NoSrv

RaceInit ==
  /\ op = "idle" /\ binding = NoBinding /\ object = 0 /\ err = "nil"
  /\ req = NoRequest /\ res = NoResponse /\ out = NoOutcome /\ flow = NoFlow
  /\ \E reg \in RaceRegistries : Built(reg)

Next ==
  \/ \E id \in Identities : \E d \in Bindings(id) : RegisterOrUpdate(d)
  \/ \E id \in Identities : Unregister(id)
  \/ \E r \in Requests : \E b \in BackendFor(r) : ServeHTTP(r, b)
  \/ \E b \in CallbackAnswers : IdPCallback(<<"abc">>, b)
  \/ Return

Spec == Init /\ [][Next]_vars

\* goroutines calling the registration API, and the server handling a
\* request, at the same time
RaceNext ==
  \/ \E p \in Callers : \E id \in Identities : \E d \in Versions(id) :
       GoRegisterOrUpdate(p, d)
  \/ \E p \in Callers : Lock(p)
  \/ \E p \in Callers : RegNext(p)
  \/ \E p \in Callers : RegUpdate(p)
  \/ \E p \in Callers : RegAppend(p)
  \/ \E p \in Callers : RegStore(p)
  \/ \E p \in Callers : \E id \in Identities : GoUnregister(p, id)
  \/ \E p \in Callers : UnregNext(p)
  \/ \E p \in Callers : UnregSlice(p)
  \/ \E p \in Callers : UnregMove(p)
  \/ \E p \in Callers : UnregStore(p)
  \/ \E r \in RaceRequests : GoServeHTTP(r)
  \/ SrvNext
  \/ SrvParse
  \/ SrvHost
  \/ SrvService
  \/ SrvPort
  \/ SrvPaths
  \/ SrvRedirect

RaceSpec == RaceInit /\ [][RaceNext]_vars

\* goroutines that call RegisterOrUpdate only
LockNext ==
  \/ \E p \in Callers : \E id \in Identities : \E d \in Versions(id) :
       GoRegisterOrUpdate(p, d)
  \/ \E p \in Callers : Lock(p)
  \/ \E p \in Callers : RegNext(p)
  \/ \E p \in Callers : RegUpdate(p)
  \/ \E p \in Callers : RegAppend(p)
  \/ \E p \in Callers : RegStore(p)

\* the registries they find: every binding is for the host of the services
LockRegistries ==
  { reg \in RaceRegistries : \A i \in 1..Len(reg) : reg[i].Host = HostFoo }

LockInit ==
  /\ op = "idle" /\ binding = NoBinding /\ object = 0 /\ err = "nil"
  /\ req = NoRequest /\ res = NoResponse /\ out = NoOutcome /\ flow = NoFlow
  /\ \E reg \in LockRegistries : Built(reg)

LockSpec == LockInit /\ [][LockNext]_vars

(***************************************************************************)
(* The caller's variable.  RegisterOrUpdate is handed a pointer to it, and *)
(* the caller assigns to it again after the call (part_003:23-50).         *)
(***************************************************************************)
\* the call of goroutine p has returned nil
HasReturned(p) == At(p, "idle") /\ proc[p].n # 0 /\ proc[p].ret = "nil"

\* path = OAUTH2Proxy{...} (part_003:40-50): the variable whose address
\* call n was given is cell n, and it gets the value d
CallerAssigns(p, d) ==
  /\ HasReturned(p) /\ d.Object = proc[p].obj
  /\ objs' = [objs EXCEPT ![proc[p].n] = d]
  /\ UNCHANGED <<hdr, arrays, mutex, started>>
  /\ Step(p, [proc[p] EXCEPT !.d = d])

AliasNext ==
  \/ LockNext
  \/ \E p \in Callers : \E id \in Identities : \E d \in Versions(id) :
       CallerAssigns(p, d)

AliasSpec == LockInit /\ [][AliasNext]_vars

(***************************************************************************)
(* The control loop (part_005:110-182).  What r.Client.Get returns for the *)
(* OAUTH2Proxy object and for its service is the cluster's to decide.      *)
(***************************************************************************)
\* r.Client.Get of the OAUTH2Proxy object (part_005:115-117): not found,
\* or the object with what it asks for
Fetched(id) ==
  { [err |-> "NotFound", ph |-> NoBinding] }
  \cup { [err |-> "nil", ph |-> d] : d \in Versions(id) }

\* the lookup of the service and of its port (part_005:142-163)
Lookups == {"nil", "ServiceNotFound", "PortNotFound"}

\* reconcile (part_005:140-182): the binding is registered if the service
\* and its port were found, and nothing is done if not
reconcile(ph, svc) ==
  IF svc = "nil"
  THEN dst' = Registered(dst, ph) /\ binding' = ph
  ELSE dst' = dst /\ binding' = NoBinding

\* Reconcile (part_005:110-138): for an object that is not found it
\* returns at once
Reconcile(id, got, svc) ==
  /\ op = "idle"
  /\ op' = "Reconcile" /\ object' = id /\ err' = got.err
  /\ before' = dst
  /\ IF got.err = "NotFound" THEN dst' = dst /\ binding' = NoBinding
     ELSE reconcile(got.ph, svc)
  /\ UNCHANGED <<req, res, out, flow, mem>>

CtlNext ==
  \/ \E id \in Identities : \E got \in Fetched(id) : \E svc \in Lookups :
       Reconcile(id, got, svc)
  \/ \E r \in RaceRequests : ServeHTTP(r, RaceAnswer)
  \/ Return

CtlSpec == Init /\ [][CtlNext]_vars



(***************************************************************************)
(* What the claims speak of.                                               *)
(***************************************************************************)
Served      == op = "ServeHTTP"
OutboundLeg == Served /\ out.leg = "outbound"
InboundLeg  == Served /\ out.leg = "inbound"

\* the binding the request was routed to
Routed == dst[out.idx]

\* the request's parameters as section 4.3 of the specification places
\* them: the query string of a GET, the urlencoded body of a POST
SpecValues(r) == IF r.Method = "POST" THEN Query(r.Form) ELSE Query(r.URL.RawQuery)

\* the Location the backend sent and the one the caller got
SentLocation == res.Header.Location[1]
GotLocation  == out.w.Header.Location[1]
HasLocation  == out.w.Header.Location # <<>>

\* the backend answered with a Location that parses and whose query has a
\* non-empty redirect_uri, to a request under one of the binding's prefixes
SwapCase ==
  /\ OutboundLeg /\ ~res.err /\ res.Header.Location # <<>>
  /\ Parse(SentLocation).ok
  /\ Get(LocationValues(SentLocation), KRedirect) # Empty
  /\ \E i \in 1..Len(Routed.Paths) : HasPrefix(req.URL.Path, Routed.Paths[i])

SameHostPath(u, v) == u.ok /\ v.ok /\ u.Host = v.Host /\ u.Path = v.Path

\* every parameter of vals other than state is among those of loc, with the
\* same values in the same order
CarriesOthers(loc, vals) ==
  \A i \in 1..Len(vals) :
    vals[i][1] # KState => GetAll(loc, vals[i][1]) = GetAll(vals, vals[i][1])

(***************************************************************************)
(* C1  A request whose host is no binding's externalHost and no binding's  *)
(* redirectURI host is answered 503, and no backend is called.             *)
(* Stated as claimed; the code answers 500 as soon as the scan meets a     *)
(* binding whose redirectURI does not parse.                               *)
(***************************************************************************)
HostMatches(d, host) ==
  d.Host = host \/ (Parse(d.RedirectURI).ok /\ Parse(d.RedirectURI).Host = host)

C1_NoMatchIs503 ==
  (Served /\ \A k \in 1..Len(dst) : ~HostMatches(dst[k], req.Host))
    => out.w.Code = StatusServiceUnavailable /\ out.calls = <<>>

(***************************************************************************)
(* C2  Outbound leg: when the backend's Location has a non-empty           *)
(* redirect_uri and the request path is under a prefix of the binding, the *)
(* one state parameter of the Location sent on deserializes to the         *)
(* envelope whose origState is the state the backend sent (empty if it     *)
(* sent none) and whose origRedirectURI is the redirect_uri it sent.       *)
(* (If that redirect_uri does not parse no Location is sent on at all.)    *)
(***************************************************************************)
C2_StateIsEnvelope ==
  (SwapCase /\ HasLocation) =>
    /\ Len(GetAll(LocationValues(GotLocation), KState)) = 1
    /\ Unmarshal(Get(LocationValues(GotLocation), KState)) =
         [ok |-> TRUE,
          OrigState |-> Get(LocationValues(SentLocation), KState),
          OrigRedirectURI |-> Get(LocationValues(SentLocation), KRedirect)]

\* a swap happened for a state that needs escaping, and one with no state
C2_Witness ==
  /\ SwapCase /\ HasLocation /\ GotLocation # SentLocation
  /\ Get(LocationValues(SentLocation), KState) = OddState
  /\ Unmarshal(Get(LocationValues(GotLocation), KState)).OrigState = OddState

(***************************************************************************)
(* C3  Outbound leg: whenever the Location is rewritten, its new           *)
(* redirect_uri has the scheme and host of the binding's redirectURI and   *)
(* the path of the original redirect_uri.                                  *)
(***************************************************************************)
C3_NewRedirectURI ==
  (Served /\ out.swapped) =>
    /\ Len(GetAll(LocationValues(GotLocation), KRedirect)) = 1
    /\ Parse(Get(LocationValues(GotLocation), KRedirect)).ok
    /\ Parse(Get(LocationValues(GotLocation), KRedirect)).Scheme
         = Parse(Routed.RedirectURI).Scheme
    /\ Parse(Get(LocationValues(GotLocation), KRedirect)).Host
         = Parse(Routed.RedirectURI).Host
    /\ Parse(Get(LocationValues(GotLocation), KRedirect)).Path
         = Parse(Get(LocationValues(SentLocation), KRedirect)).Path

\* the binding's redirectURI has a path of its own, the original another
C3_Witness ==
  /\ Served /\ out.swapped
  /\ Parse(Routed.RedirectURI).Path = PathCb
  /\ Parse(Get(LocationValues(GotLocation), KRedirect)).Path = <<"/", "done">>
  /\ Parse(Get(LocationValues(GotLocation), KRedirect)).Host = HostProxy

(***************************************************************************)
(* C4  Round trip: the backend sent redirect_uri R and state S, the proxy  *)
(* rewrote the Location, and the external IdP called the rewritten         *)
(* redirect_uri with the rewritten state and a code.  If that request      *)
(* takes the inbound leg, it is answered 303 with a Location whose host    *)
(* and path are those of R, whose state is S (no state parameter if S was  *)
(* empty) and which carries the code; no backend is called.                *)
(***************************************************************************)
C4_RoundTrip ==
  (InboundLeg /\ flow.on) =>
    /\ out.w.Code = StatusSeeOther /\ HasLocation /\ out.calls = <<>>
    /\ SameHostPath(Parse(GotLocation), Parse(flow.R))
    /\ GetAll(LocationValues(GotLocation), KState)
         = (IF flow.S = Empty THEN <<>> ELSE <<flow.S>>)
    /\ GetAll(LocationValues(GotLocation), KCode) = <<flow.code>>

C4_Witness ==
  /\ InboundLeg /\ flow.on /\ flow.S = OddState /\ flow.R = AppURI
  /\ out.w.Code = StatusSeeOther
  /\ Get(LocationValues(GotLocation), KState) = OddState

(***************************************************************************)
(* C5  Inbound leg: a request whose state deserializes to an envelope with *)
(* a parsable origRedirectURI is answered 303 with no body and a Location  *)
(* whose host and path are those of origRedirectURI and which carries      *)
(* every other parameter of the request unchanged.                         *)
(* Stated as claimed, over GET and POST; the code reads only the query     *)
(* string (C9), so a POST with the envelope in its body is answered 400.   *)
(***************************************************************************)
C5_InboundRecovers ==
  (/\ InboundLeg
   /\ Unmarshal(Get(SpecValues(req), KState)).ok
   /\ Parse(Unmarshal(Get(SpecValues(req), KState)).OrigRedirectURI).ok)
  =>
    /\ out.w.Code = StatusSeeOther /\ out.w.Body = Empty /\ HasLocation
    /\ SameHostPath(Parse(GotLocation),
                    Parse(Unmarshal(Get(SpecValues(req), KState)).OrigRedirectURI))
    /\ CarriesOthers(LocationValues(GotLocation), SpecValues(req))

(***************************************************************************)
(* C6  Inbound leg: the state parameter of the 303 Location is the         *)
(* origState of the envelope the leg decoded when that is not empty, and   *)
(* the Location has no state parameter at all when it is empty.            *)
(***************************************************************************)
C6_StateRestored ==
  (InboundLeg /\ out.w.Code = StatusSeeOther) =>
    /\ HasLocation /\ out.st.ok
    /\ GetAll(LocationValues(GotLocation), KState)
         = (IF out.st.OrigState = Empty THEN <<>> ELSE <<out.st.OrigState>>)

\* an envelope without origState was recovered, with a code carried along
C6_Witness ==
  /\ InboundLeg /\ out.w.Code = StatusSeeOther
  /\ out.st.ok /\ out.st.OrigState = Empty /\ out.st.OrigRedirectURI = AppURI
  /\ Has(IncomingValues(req), KState)
  /\ ~Has(LocationValues(GotLocation), KState)
  /\ Has(LocationValues(GotLocation), KCode)

(***************************************************************************)
(* C7  Inbound leg: a request whose state parameter is absent, is no valid *)
(* serialized envelope, or has an origRedirectURI that does not parse, is  *)
(* answered 400 and gets no Location.                                      *)
(* Stated as claimed, over GET and POST; for a POST the code reads the     *)
(* query string instead of the body (C9) and may answer 303.               *)
(***************************************************************************)
C7_BadStateIs400 ==
  (/\ InboundLeg
   /\ \/ ~Has(SpecValues(req), KState)
      \/ ~Unmarshal(Get(SpecValues(req), KState)).ok
      \/ ~Parse(Unmarshal(Get(SpecValues(req), KState)).OrigRedirectURI).ok)
  => out.w.Code = StatusBadRequest /\ ~HasLocation

(***************************************************************************)
(* C8  Inbound leg: a state that deserializes to an envelope without       *)
(* origRedirectURI (such as {} or null) is answered 400, not 303.          *)
(* Stated as claimed; the code parses the empty origRedirectURI without    *)
(* error and answers 303.                                                  *)
(***************************************************************************)
C8_IncompleteIs400 ==
  (InboundLeg /\ out.st.ok /\ out.st.OrigRedirectURI = Empty)
    => out.w.Code = StatusBadRequest

(***************************************************************************)
(* C9  Inbound leg, POST: the parameters are those of the urlencoded body. *)
(* A body with a valid envelope and a code is answered 303 with that code  *)
(* and the original state; a body without a valid state is answered 400    *)
(* whatever the query string holds.                                        *)
(* Stated as claimed; the code reads r.URL.Query() for every method.       *)
(***************************************************************************)
C9_PostReadsBody ==
  (InboundLeg /\ req.Method = "POST") =>
    IF /\ Unmarshal(Get(Query(req.Form), KState)).ok
       /\ Unmarshal(Get(Query(req.Form), KState)).OrigRedirectURI # Empty
       /\ Parse(Unmarshal(Get(Query(req.Form), KState)).OrigRedirectURI).ok
    THEN /\ out.w.Code = StatusSeeOther /\ HasLocation
         /\ GetAll(LocationValues(GotLocation), KCode)
              = GetAll(Query(req.Form), KCode)
         /\ Get(LocationValues(GotLocation), KState)
              = Unmarshal(Get(Query(req.Form), KState)).OrigState
    ELSE out.w.Code = StatusBadRequest

(***************************************************************************)
(* C10  RegisterOrUpdate for an identity that is already registered leaves *)
(* exactly one binding for it, at the position it had, holding the values  *)
(* of the call in all fields; the registry keeps its length.               *)
(***************************************************************************)
C10_UpdateInPlace ==
  (op = "RegisterOrUpdate" /\ Find(before, binding.Object) # 0) =>
    /\ err = "nil"
    /\ Len(dst) = Len(before)
    /\ dst[Find(before, binding.Object)] = binding
    /\ Cardinality({k \in 1..Len(dst) : dst[k].Object = binding.Object}) = 1

\* the second call changed every field of the first of two bindings
C10_Witness ==
  /\ op = "RegisterOrUpdate" /\ Len(before) = 2
  /\ before[1].Object = binding.Object
  /\ before[1].Host # binding.Host /\ before[1].Service # binding.Service
  /\ before[1].Port # binding.Port
  /\ before[1].RedirectURI # binding.RedirectURI
  /\ before[1].Paths # binding.Paths
  /\ dst[1] = binding /\ dst[2] = before[2]


(***************************************************************************)
(* C11  After any sequence and any interleaving of RegisterOrUpdate and    *)
(* Unregister calls, once the calls have returned, no two bindings of the  *)
(* registry have the same identity.                                        *)
(* Stated as claimed, over calls that overlap; Unregister takes no lock    *)
(* (C27), and its store of the shortened slice can be overwritten by the   *)
(* append of a RegisterOrUpdate that copied the array it had shifted.      *)
(***************************************************************************)
Quiescent == \A p \in Callers : proc[p].pc = "idle"

OnePerIdentity(reg) ==
  \A i, j \in 1..Len(reg) : reg[i].Object = reg[j].Object => i = j

C11_OnePerIdentity == Quiescent => OnePerIdentity(dst)

(***************************************************************************)
(* C12  Unregister with an identity the registry does not hold returns     *)
(* ErrServiceNotRegistered and leaves the registry as it was: the same     *)
(* bindings in the same order.                                             *)
(***************************************************************************)
C12_UnregisterAbsent ==
  (op = "Unregister" /\ Find(before, object) = 0) =>
    err = "ErrServiceNotRegistered" /\ dst = before

\* the identity was registered and removed before; others are registered
C12_Witness ==
  /\ op = "Unregister" /\ Find(before, object) = 0
  /\ Len(before) = 2 /\ dst = before /\ err = "ErrServiceNotRegistered"

(***************************************************************************)
(* C13  Unregister with an identity the registry holds returns nil and     *)
(* removes that binding only: the bindings before it keep their place, the *)
(* bindings after it move up by one in their order, all fields unchanged.  *)
(***************************************************************************)
C13_UnregisterRemovesOne ==
  (op = "Unregister" /\ Find(before, object) # 0) =>
    /\ err = "nil"
    /\ Len(dst) = Len(before) - 1
    /\ \A i \in 1..Len(dst) :
         dst[i] = IF i < Find(before, object) THEN before[i] ELSE before[i + 1]
    /\ \A i \in 1..Len(dst) : dst[i].Object # object

\* the first of three bindings is removed, the other two keep their order
C13_Witness ==
  /\ op = "Unregister" /\ Len(before) = 3 /\ before[1].Object = object
  /\ err = "nil" /\ dst = <<before[2], before[3]>>
  /\ before[2] # before[3]

(***************************************************************************)
(* C14  RegisterOrUpdate always returns nil; for an identity the registry  *)
(* does not hold, the registry afterwards is the one before with the       *)
(* binding of the call added at the end.                                   *)
(***************************************************************************)
C14_RegisterAppends ==
  (op = "RegisterOrUpdate") =>
    /\ err = "nil"
    /\ Find(before, binding.Object) = 0 => dst = Append(before, binding)

\* a third binding is added after two others
C14_Witness ==
  /\ op = "RegisterOrUpdate" /\ Len(before) = 2
  /\ Find(before, binding.Object) = 0
  /\ Len(dst) = 3 /\ dst[3] = binding /\ dst[1] = before[1] /\ dst[2] = before[2]

\* index of the first binding whose externalHost is host, 0 if there is none
FirstHost(reg, host) ==
  IF \E k \in 1..Len(reg) : reg[k].Host = host
  THEN CHOOSE k \in 1..Len(reg) :
         reg[k].Host = host /\ \A j \in 1..(k-1) : reg[j].Host # host
  ELSE 0

AllParse(reg) == \A k \in 1..Len(reg) : Parse(reg[k].RedirectURI).ok

(***************************************************************************)
(* C15  Routing precedence: a request whose host is the externalHost of a  *)
(* registered binding takes the outbound leg of the first such binding,    *)
(* also when a binding registered earlier has that host in its             *)
(* redirectURI; the inbound leg is taken only when no externalHost is the  *)
(* request's host.                                                         *)
(* Stated as claimed, for registries whose redirectURIs all parse; the     *)
(* code decides binding by binding, so an earlier binding's redirectURI    *)
(* host wins over a later binding's externalHost.                          *)
(***************************************************************************)
C15_ExternalHostFirst ==
  (Served /\ AllParse(dst)) =>
    /\ FirstHost(dst, req.Host) # 0 =>
         OutboundLeg /\ out.idx = FirstHost(dst, req.Host)
    /\ InboundLeg => FirstHost(dst, req.Host) = 0

PathMatches ==
  \E i \in 1..Len(Routed.Paths) : HasPrefix(req.URL.Path, Routed.Paths[i])

\* the response as the backend sent it
AsSent == MkWriter(res.StatusCode, res.Header, res.Body)

\* the backend answered, under a matching prefix, with a Location that does
\* not parse or whose non-empty redirect_uri does not parse
RewriteFails ==
  /\ PathMatches /\ res.Header.Location # <<>>
  /\ \/ ~Parse(SentLocation).ok
     \/ /\ Get(LocationValues(SentLocation), KRedirect) # Empty
        /\ ~Parse(Get(LocationValues(SentLocation), KRedirect)).ok

\* the backend call succeeded and the rewrite did not fail
Forwarded == OutboundLeg /\ ~res.err /\ ~RewriteFails

(***************************************************************************)
(* C17  The Location is rewritten only if the request's path has one of    *)
(* the binding's pathPrefixes as a prefix.  Otherwise, and so always when  *)
(* the binding has no prefixes, the Location reaches the caller exactly as *)
(* the backend sent it, malformed or with a redirect_uri as it may be.     *)
(***************************************************************************)
C17_RewriteOnlyUnderPrefix ==
  /\ (Served /\ out.swapped) => PathMatches
  /\ (OutboundLeg /\ ~res.err /\ ~PathMatches) =>
       ~out.swapped /\ out.w.Header.Location = res.Header.Location
  /\ (OutboundLeg /\ ~res.err /\ Routed.Paths = <<>>) =>
       out.w.Header.Location = res.Header.Location

\* a binding without prefixes and a Location that does not parse
C17_Witness ==
  /\ OutboundLeg /\ ~res.err /\ Routed.Paths = <<>>
  /\ res.Header.Location = <<BadURI>> /\ out.w.Header.Location = <<BadURI>>
  /\ out.w.Code = res.StatusCode

(***************************************************************************)
(* C18  Outbound leg: when the backend's Location parses and has no        *)
(* redirect_uri, or an empty one, the response reaches the caller          *)
(* untouched: the Location, the status, the other headers and the body are *)
(* the backend's.                                                          *)
(***************************************************************************)
C18_NoRedirectUntouched ==
  (/\ OutboundLeg /\ ~res.err /\ res.Header.Location # <<>>
   /\ Parse(SentLocation).ok
   /\ Get(LocationValues(SentLocation), KRedirect) = Empty)
  => out.w = AsSent /\ ~out.swapped

\* under a matching prefix, a Location with an empty redirect_uri and a state
C18_Witness ==
  /\ OutboundLeg /\ ~res.err /\ PathMatches /\ res.Header.Location # <<>>
  /\ Has(LocationValues(SentLocation), KRedirect)
  /\ Get(LocationValues(SentLocation), KRedirect) = Empty
  /\ Get(LocationValues(SentLocation), KState) = PlainState
  /\ out.w = AsSent

(***************************************************************************)
(* C19  Outbound leg: when the response is forwarded, every header of the  *)
(* backend's response other than a rewritten Location reaches the caller   *)
(* with all of its values in the backend's order.                          *)
(***************************************************************************)
C19_HeadersForwarded ==
  Forwarded =>
    /\ out.w.Header.X1 = res.Header.X1
    /\ ~out.swapped => out.w.Header.Location = res.Header.Location

\* a header with two values next to a Location that is rewritten
C19_Witness ==
  /\ Forwarded /\ out.swapped /\ GotLocation # SentLocation
  /\ res.Header.X1 = <<<<"foo">>, <<"bar">>>>
  /\ out.w.Header.X1 = <<<<"foo">>, <<"bar">>>>

(***************************************************************************)
(* C20  Outbound leg: when the backend call succeeds and the rewrite does  *)
(* not fail, the status sent to the caller is the backend's status and the *)
(* body sent is the backend's body, with or without a rewritten Location.  *)
(***************************************************************************)
C20_StatusAndBody ==
  Forwarded => out.w.Code = res.StatusCode /\ out.w.Body = res.Body

\* a redirect of the backend whose Location is rewritten
C20_Witness ==
  /\ Forwarded /\ out.swapped /\ res.StatusCode # StatusSeeOther
  /\ res.StatusCode \notin {0, StatusBadRequest} /\ res.Body # Empty
  /\ out.w.Code = res.StatusCode /\ out.w.Body = res.Body

(***************************************************************************)
(* C21 - C30                                                               *)
(***************************************************************************)
\* C21: when the call of the backend fails in transport (client.Do returns
\* an error), the caller is answered 400 and nothing else, neither header
\* nor body, and the backend has been called exactly once.
C21_TransportErrorIs400 ==
  (OutboundLeg /\ res.err) =>
    /\ out.w = OnlyStatus(StatusBadRequest)
    /\ Len(out.calls) = 1

\* a request under a rewrite prefix whose backend call failed
C21_Witness ==
  /\ OutboundLeg /\ res = TransportError /\ PathMatches
  /\ out.w.Code = StatusBadRequest /\ Len(out.calls) = 1
  /\ out.calls[1].Service = Routed.Service

\* C22: on the outbound leg, when the request's path is under a rewrite
\* prefix and the backend's Location does not parse, or its redirect_uri does
\* not parse, the caller is answered 400 and gets nothing of the backend's
\* response: not its status, not its headers, not its body.
C22_BadLocationIs400 ==
  (OutboundLeg /\ ~res.err /\ RewriteFails) =>
    /\ out.w = OnlyStatus(StatusBadRequest)
    /\ Len(out.calls) = 1

\* the backend answered 302 with headers and a body, and a Location that
\* does not parse
C22_Witness ==
  /\ OutboundLeg /\ ~res.err /\ PathMatches
  /\ res.Header.Location # <<>> /\ ~Parse(SentLocation).ok
  /\ res.StatusCode = 302 /\ res.Header.X1 # <<>> /\ res.Body # Empty
  /\ out.w = OnlyStatus(StatusBadRequest)

\* the same, with a Location that parses and a redirect_uri that does not
C22_WitnessRedirect ==
  /\ OutboundLeg /\ ~res.err /\ PathMatches
  /\ res.Header.Location # <<>> /\ Parse(SentLocation).ok
  /\ Get(LocationValues(SentLocation), KRedirect) # Empty
  /\ ~Parse(Get(LocationValues(SentLocation), KRedirect)).ok
  /\ res.StatusCode = 302 /\ res.Body # Empty
  /\ out.w = OnlyStatus(StatusBadRequest)

\* C23: a request whose host is the externalHost of a binding whose own
\* redirectURI does not parse (of the bindings with that externalHost, the
\* first) is answered 500 and nothing else, without a backend call, so
\* whatever the backend would answer.
C23_BadRedirectURIIs500 ==
  (/\ Served /\ FirstHost(dst, req.Host) # 0
   /\ ~Parse(dst[FirstHost(dst, req.Host)].RedirectURI).ok) =>
    /\ out.w = OnlyStatus(StatusInternalServerError)
    /\ out.calls = <<>>

\* C24: every request, on every path through the handler, gets exactly one
\* response status written, and at most one call of a backend is made for
\* it; the inbound leg and the answer to a host no binding matches make no
\* backend call.
C24_OneStatusOneCall ==
  Served =>
    /\ Len(out.w.WriteHeader) = 1 /\ out.w.Code = out.w.WriteHeader[1]
    /\ out.leg \in {"outbound", "inbound", "none", "config"}
    /\ Len(out.calls) <= 1
    /\ out.leg \in {"inbound", "none"} => out.calls = <<>>

\* a request forwarded with a swapped Location: one status, one call
C24_Witness ==
  /\ OutboundLeg /\ out.swapped
  /\ out.w.WriteHeader = <<res.StatusCode>> /\ Len(out.calls) = 1

\* a callback answered 303 on the inbound leg: one status, no call
C24_WitnessInbound ==
  /\ InboundLeg /\ out.w.WriteHeader = <<StatusSeeOther>> /\ out.calls = <<>>

\* a request no binding matches: one status, no call
C24_WitnessNone ==
  /\ Served /\ out.leg = "none" /\ Len(dst) > 0
  /\ out.w.WriteHeader = <<StatusServiceUnavailable>> /\ out.calls = <<>>

\* C25: handling a request leaves the registry as it was: the same
\* bindings, in the same order, with the same fields, whatever the request
\* and however it is answered.
C25_RequestLeavesRegistry == Served => dst = before

\* a request was rewritten and forwarded with two bindings registered
C25_Witness ==
  /\ OutboundLeg /\ out.swapped /\ Len(before) >= 2 /\ dst = before

\* a request was refused for a binding whose redirectURI does not parse
C25_WitnessConfig ==
  /\ Served /\ out.leg = "config" /\ Len(before) >= 2 /\ dst = before

\* the fields d were all read from one version of the binding they belong to
OneVersion(d) ==
  \E v \in Versions(d.Object) :
    /\ d.Host = v.Host /\ d.Service = v.Service /\ d.Port = v.Port
    /\ d.Paths = v.Paths
    /\ d.RedirectURI # Empty => d.RedirectURI = v.RedirectURI

\* C26: a request that runs while RegisterOrUpdate replaces a registered
\* binding never sees the binding half updated: the host it matched, the
\* backend address and port it calls, and the pathPrefixes and redirectURI
\* it rewrites with all belong to one version of the binding.
C26_NeverMidUpdate == OutboundLeg => OneVersion(srv.d)

\* the bindings reg holds for the owning object id, in order
Held(reg, id) == SelectSeq(reg, LAMBDA x : x.Object = id)

\* C27: when RegisterOrUpdate(A) and Unregister(B), for two owning objects
\* A # B with B registered, have both returned, whether or not they
\* overlapped, the registry holds the binding A asked for exactly once, no
\* binding of B, and of every other owning object what it held before.
C27_MutationsSerialized ==
  \A p, q \in Callers :
    (/\ Quiescent /\ started = 2
     /\ proc[p].n # 0 /\ proc[p].d # NoBinding
     /\ proc[q].n # 0 /\ proc[q].d = NoBinding
     /\ proc[p].obj # proc[q].obj /\ Find(before, proc[q].obj) # 0) =>
      /\ Held(dst, proc[p].obj) = <<proc[p].d>>
      /\ Held(dst, proc[q].obj) = <<>>
      /\ \A id \in Identities \ {proc[p].obj, proc[q].obj} :
           Held(dst, id) = Held(before, id)

\* C28: when binding X is the only registered binding that matches the
\* request's host and the registry calls made while the request is served
\* are for other owning objects (and add no match for that host), the
\* request is not answered 503 and is routed to X.
C28_ScanNeverRaces ==
  \A k \in 1..Len(before) :
    (/\ Served
     /\ \A j \in 1..Len(before) : HostMatches(before[j], req.Host) <=> j = k
     /\ \A p \in Callers :
          proc[p].n # 0 => /\ proc[p].obj # before[k].Object
                           /\ ~HostMatches(proc[p].d, req.Host)) =>
      /\ out.w.Code # StatusServiceUnavailable
      /\ out.leg # "none" /\ srv.d.Object = before[k].Object

\* the scan over reg comes to binding k for a request to host: no binding
\* before it fails to parse or matches the host
ReachedFirst(reg, k, host) ==
  \A j \in 1..(k - 1) :
    Parse(reg[j].RedirectURI).ok /\ ~HostMatches(reg[j], host)

\* a request r that arrives when RegisterOrUpdate has returned is routed by
\* what the call was given
SeesRegistration(r, k, o) ==
  (/\ r.Host = binding.Host /\ Parse(binding.RedirectURI).ok
   /\ ReachedFirst(dst, k, r.Host)) =>
    /\ o.leg = "outbound" /\ o.idx = k
    /\ o.calls = <<[Service |-> binding.Service, Port |-> binding.Port,
                    Path |-> r.URL.Path]>>

\* ... and by nothing the binding held before: after a change of its
\* externalHost it does not take requests to the old host to its backend
LeavesOldHost(r, k, old, o) ==
  (old # 0 /\ before[old].Host # binding.Host /\ r.Host = before[old].Host) =>
    ~(o.leg = "outbound" /\ o.idx = k)

C30_CancelPropagated ==
  (OutboundLeg /\ req.Cancelled) =>
    /\ out.ctx = "request"
    /\ out.w = NoWriter

(***************************************************************************)
(* C31 - C39                                                               *)
(***************************************************************************)
\* C31: when two calls of RegisterOrUpdate for one owning object, with
\* different values, have both returned, whether or not they overlapped,
\* the registry holds exactly one binding of that owning object and it is
\* all of one call's values or all of the other's; so for an owning object
\* that was registered before as for a new one.
C31_FinalWriterWins ==
  \A p, q \in Callers :
    (/\ Quiescent /\ started = 2 /\ p # q
     /\ proc[p].n # 0 /\ proc[q].n # 0
     /\ proc[p].d # NoBinding /\ proc[q].d # NoBinding
     /\ proc[p].obj = proc[q].obj /\ proc[p].d # proc[q].d) =>
      /\ Held(dst, proc[p].obj) \in {<<proc[p].d>>, <<proc[q].d>>}
      /\ \A id \in Identities \ {proc[p].obj} : Held(dst, id) = Held(before, id)

\* two calls for a new owning object overlapped: the struct in the registry
\* is the one the call that started second appended, and it holds the
\* values of the call that started first
C31_Witness ==
  \E p, q \in Callers :
    /\ Quiescent /\ started = 2
    /\ proc[p].n = 1 /\ proc[q].n = 2
    /\ proc[p].obj = proc[q].obj /\ proc[p].d # proc[q].d
    /\ proc[q].d # NoBinding
    /\ Find(before, proc[p].obj) = 0 /\ Len(before) > 0
    /\ arrays[hdr.ptr][hdr.len] = proc[q].n
    /\ Held(dst, proc[p].obj) = <<proc[p].d>>

\* two calls for a registered owning object overlapped: the call that
\* started first wrote last
C31_WitnessUpdate ==
  \E p, q \in Callers :
    /\ Quiescent /\ started = 2
    /\ proc[p].n = 1 /\ proc[q].n = 2
    /\ proc[p].obj = proc[q].obj /\ proc[p].d # proc[q].d
    /\ proc[p].d # NoBinding /\ proc[q].d # NoBinding
    /\ Find(before, proc[p].obj) # 0
    /\ Held(dst, proc[p].obj) = <<proc[p].d>>

\* what the inbound leg writes for request r when nothing is known of the
\* registry, the binding that matched or the requests served before
AloneWriter(r) == recoverIncomingState(r, NoBinding, 0).w

\* C32: the inbound leg keeps no state: what is written for a request on
\* the inbound leg (status and Location) depends on the request alone, not
\* on the binding whose redirectURI host matched, its fields or its place,
\* nor on an outbound request having been served before.
C32_InboundStateless == InboundLeg => out.w = AloneWriter(req)

\* a callback is answered 303 after the outbound request of its flow was
\* served, with two bindings registered
C32_Witness ==
  /\ InboundLeg /\ flow.on /\ Len(dst) >= 2
  /\ out.w.Code = StatusSeeOther /\ out.w = AloneWriter(req)

\* the same callback with no outbound request before it, matched by a
\* binding with another backend and no path prefixes
C32_WitnessOther ==
  /\ InboundLeg /\ ~flow.on /\ Routed.Paths = <<>> /\ Routed.Service = "baz"
  /\ out.w.Code = StatusSeeOther /\ out.w = AloneWriter(req)

\* the parameters of vals other than state and redirect_uri
Others(vals) ==
  SelectSeq(vals, LAMBDA p : p[1] # KState /\ p[1] # KRedirect)

\* the same keys, each with the same values in the same order
SameValues(a, b) ==
  /\ \A i \in 1..Len(a) : GetAll(b, a[i][1]) = GetAll(a, a[i][1])
  /\ \A i \in 1..Len(b) : Has(a, b[i][1])

\* C33: when the outbound leg rewrites a Location, the Location sent on
\* has the scheme, the host and the path of the one the backend sent, and
\* the query parameters other than state and redirect_uri are the same,
\* with the same values.
C33_OnlyStateAndRedirectChange ==
  (OutboundLeg /\ out.swapped) =>
    /\ Parse(GotLocation).ok
    /\ Parse(GotLocation).Scheme = Parse(SentLocation).Scheme
    /\ Parse(GotLocation).Host = Parse(SentLocation).Host
    /\ Parse(GotLocation).Path = Parse(SentLocation).Path
    /\ SameValues(Others(LocationValues(SentLocation)),
                  Others(LocationValues(GotLocation)))

\* a Location with a client_id was rewritten: state and redirect_uri are
\* new, client_id is as it was
C33_Witness ==
  /\ OutboundLeg /\ out.swapped /\ GotLocation # SentLocation
  /\ Get(LocationValues(GotLocation), KState)
       # Get(LocationValues(SentLocation), KState)
  /\ Get(LocationValues(GotLocation), KRedirect)
       # Get(LocationValues(SentLocation), KRedirect)
  /\ GetAll(LocationValues(SentLocation), <<"client_id">>) = << <<"c1">> >>
  /\ GetAll(LocationValues(GotLocation), <<"client_id">>) = << <<"c1">> >>

\* the k-th binding's redirectURI does not parse
BadURIAt(k) == ~Parse(dst[k].RedirectURI).ok

\* C34: a binding whose redirectURI does not parse touches only the
\* requests routed to it.  With such a binding registered, a request that
\* is not for its externalHost is handled by the well-formed binding whose
\* externalHost or redirectURI host it names, wherever the two sit in the
\* registry, and is answered 503 if no binding matches.
\* Stated as claimed; the code answers 500 once the scan meets the binding
\* whose redirectURI does not parse.
C34_BadBindingIsLocal ==
  ( /\ Served
    /\ \E k \in 1..Len(dst) : BadURIAt(k)
    /\ \A k \in 1..Len(dst) : BadURIAt(k) => dst[k].Host # req.Host )
  => IF \E k \in 1..Len(dst) : ~BadURIAt(k) /\ HostMatches(dst[k], req.Host)
     THEN /\ out.idx \in 1..Len(dst)
          /\ ~BadURIAt(out.idx)
          /\ HostMatches(Routed, req.Host)
     ELSE out.w.Code = StatusServiceUnavailable /\ out.calls = <<>>

\* C35: whenever the backend call of an outbound request returned a
\* response, the response body has been closed when the handler returns,
\* on the path that copies the response and on every path that ends in 400
\* or 500 after the call.
\* Stated as claimed; the code closes the body on the last line only.
C35_BodyReleased == (OutboundLeg /\ ~res.err) => out.closed

\* the caller of some call that has returned assigns to its variable
CallerStep ==
  \E p \in Callers : \E id \in Identities : \E d \in Versions(id) :
    CallerAssigns(p, d)

\* C37: the registry holds the values the binding had when RegisterOrUpdate
\* was called.  When the caller later assigns to the binding object it
\* passed in, and does not call RegisterOrUpdate again, the registry and
\* the routing of requests stay as they were, after a call that inserted
\* and after one that updated.
\* Stated as claimed; after an insert the registry holds the caller's
\* pointer, so the assignment shows in the registry.
C37_RegistryKeepsValues ==
  [][CallerStep =>
       /\ dst' = dst
       /\ \A r \in RaceRequests :
            Serve(dst', r, RaceAnswer) = Serve(dst, r, RaceAnswer)]_vars

\* the reconcile of an object that had a binding found the object gone
ReconciledDeleted ==
  op = "Reconcile" /\ err = "NotFound" /\ Find(before, object) # 0

\* C36: bindings go when their owning object goes.  After the reconcile of
\* a registered OAUTH2Proxy object that has been deleted, the registry
\* holds no binding of that object, and no request is routed to one.
\* Stated as claimed; Reconcile returns for an object that is not found
\* without a call of Unregister.
C36_DeletedIsUnregistered ==
  ReconciledDeleted =>
    /\ Find(dst, object) = 0
    /\ \A r \in RaceRequests :
         Serve(dst, r, RaceAnswer).idx # Find(before, object)

\* the inbound leg answered 303 for an envelope whose origRedirectURI parses
Recovered ==
  /\ InboundLeg /\ out.w.Code = StatusSeeOther /\ HasLocation
  /\ out.st.ok /\ Parse(out.st.OrigRedirectURI).ok

\* C38: on a successful inbound recovery the Location of the 303 has the
\* scheme of the envelope's origRedirectURI, whatever scheme the URL of the
\* request has, and also when it has none.
\* Stated as claimed; the code takes host and path from origRedirectURI and
\* leaves the scheme of the request URL.
C38_SchemeOfOrigRedirectURI ==
  Recovered =>
    Parse(GotLocation).Scheme = Parse(out.st.OrigRedirectURI).Scheme

\* C39: the query parameters the original redirect_uri carried survive the
\* round trip.  On a successful inbound recovery every parameter of the
\* envelope's origRedirectURI is among those of the 303 Location, with its
\* values, beside the parameters carried on from the request.
\* Stated as claimed; the code builds the query of the Location from the
\* query of the request alone.
C39_OrigQuerySurvives ==
  Recovered =>
    \A i \in 1..Len(LocationValues(out.st.OrigRedirectURI)) :
      LET p == LocationValues(out.st.OrigRedirectURI)[i]
      IN  \E j \in 1..Len(GetAll(LocationValues(GotLocation), p[1])) :
            GetAll(LocationValues(GotLocation), p[1])[j] = p[2]

=============================================================================
